---- MODULE Spec2Model ----
(***************************************************************************)
(* Model of the "I'm in a meeting" extension: the background coordinator   *)
(* (service worker), the session/local store, the Hue device client, the   *)
(* popup's status query and the Meet content-script detector.              *)
(* Every await of the source is one step of the handler that executes it,  *)
(* so handlers interleave exactly at the suspension points of the code.    *)
(***************************************************************************)
EXTENDS Integers, Sequences, FiniteSets, TLC

(***************************************************************************)
(* Bounds of the model.                                                    *)
(***************************************************************************)
\* number of Status handlers that may be in progress at the same time
MaxInFlight == 2
\* number of Status messages the detector sends (whole system), or that wait in the
\* runtime channel (detector alone)
MaxDetectorMessages == 2
\* the page's clock stops at MaxTime ms; a burst has at most MaxSignals mutation signals
MaxTime == 1200
MaxSignals == 3
\* calls of handleTestColor followed
MaxTests == 1

(***************************************************************************)
(* Program constants.                                                      *)
(***************************************************************************)
MAX_HUE == 65535
MAX_SAT == 254

NO_STATUS == "noStatus"
IN_MEETING == "inMeeting"
WARNING == "warning"
\* JavaScript null as the detector's cold-start lastKnownStatus
NULL == "null"

STATUS_TYPES == {NO_STATUS, IN_MEETING, WARNING}

\* "no value" / "a value" for storage keys and JS null-or-object results
None == << >>
Some(x) == << x >>

(***************************************************************************)
(* Device client: colour conversion (Math.round(x) = floor(x + 1/2)).      *)
(***************************************************************************)
\* variant of hueToApi that truncates instead of rounding
hueToApiTruncates(hue) == (hue * MAX_HUE) \div 360

hueToApi(hue) == (2 * hue * MAX_HUE + 360) \div 720

percentToApi(percent) == (2 * percent * MAX_SAT + 100) \div 200

\* an IP is a sequence of decimal groups; the regex admits 4 groups of 1..3 digits
isValidIp(ip) ==
    /\ Len(ip) = 4
    /\ \A i \in 1..Len(ip) : ip[i] >= 0 /\ ip[i] <= 999
    /\ \A i \in 1..Len(ip) : ip[i] >= 0 /\ ip[i] <= 255

\* variant that takes every client for configured
AlwaysConfigured(bridgeIp, username) == TRUE

isConfigured(bridgeIp, username) == isValidIp(bridgeIp) /\ username # ""

(***************************************************************************)
(* Store contents used by the coordinator.                                 *)
(***************************************************************************)
DEFAULT_MEETING_COLOR == [hue |-> 0, sat |-> 100, bri |-> 100]

\* the meeting colour is left at its default; the user picked an amber warning colour
StoredWarningColor == Some([hue |-> 45, sat |-> 100, bri |-> 50])

getMeetingColor == DEFAULT_MEETING_COLOR

getWarningColor ==
    IF StoredWarningColor = None THEN DEFAULT_MEETING_COLOR ELSE StoredWarningColor[1]

apiState(color) ==
    [on |-> TRUE, hue |-> hueToApi(color.hue),
     sat |-> percentToApi(color.sat), bri |-> percentToApi(color.bri)]

\* states the lamp can have before the extension touches it
OriginalLights ==
    { [on |-> TRUE, hue |-> 10000, sat |-> 200, bri |-> 150],
      [on |-> FALSE, hue |-> 30000, sat |-> 50, bri |-> 1] }

BridgeConfigs ==
    { [bridgeIp |-> <<192, 168, 1, 2>>, username |-> "user", lightId |-> "1"],
      [bridgeIp |-> <<192, 168, 1, 256>>, username |-> "user", lightId |-> "1"],
      [bridgeIp |-> <<192, 168, 1>>, username |-> "user", lightId |-> "1"],
      [bridgeIp |-> <<192, 168, 1, 2>>, username |-> "", lightId |-> "1"],
      [bridgeIp |-> <<192, 168, 1, 2>>, username |-> "user", lightId |-> ""],
      [bridgeIp |-> << >>, username |-> "", lightId |-> ""] }

VARIABLES
    currentMeetingStatus,   \* session store: meeting flag
    currentWarningStatus,   \* session store: warning flag
    previousLightState,     \* session store: snapshot, None or Some(state)
    warningColorEnabled,    \* local store: warning feature flag
    bridgeConfig,           \* local store: bridge address, credential, light id
    bridgeReliable,         \* TRUE: every device call succeeds; FALSE: calls may fail
    light,                  \* the lamp's actual state
    h,                      \* slot -> Status handler in that slot
    last,                   \* summary of the finished handler last replaced in a slot
    newest,                 \* slot of the handler whose message arrived last
    lastWriter,             \* slot of the handler that issued the last device write, 0 if none
    popup,                  \* the popup's GET_STATUS query
    det,                    \* the content-script detector
    channel,                \* Status messages sent by the detector, not yet dispatched
    dispatched,             \* number of Status messages counted against the bounds
    original,               \* the lamp's state before the extension touched it
    worker,                 \* the service worker's start-up
    timers,                 \* the page's clock and the detector's pending debounce timers
    client,                 \* the device client's call in progress
    conv,                   \* the colour conversion last applied
    storage,                \* chrome.storage: key -> None (absent) or Some(value)
    got,                    \* the store getter last called and what it returned
    test                    \* the settings page's test of the meeting colour

vars == << currentMeetingStatus, currentWarningStatus, previousLightState,
           warningColorEnabled, bridgeConfig, bridgeReliable, light,
           h, last, newest, lastWriter, popup, det, channel, dispatched, original, worker,
           timers, client, conv, storage, got, test >>

storeVars == << currentMeetingStatus, currentWarningStatus, previousLightState >>
detVars == << det, channel >>
envVars == << det, channel, dispatched, original >>
libVars == << timers, client, conv, storage, got, test >>

Slots == 1..MaxInFlight

\* what GetStatus would answer from the flags m (meeting), e (enabled), w (warning)
StatusOf(m, e, w) ==
    IF m THEN IN_MEETING ELSE IF e /\ w THEN WARNING ELSE NO_STATUS

\* a handler's position (pc), its message and locals, and a record of what it did:
\* accepted (passed the duplicate check), bcast/sent/heard (broadcasts issued, and
\* whether a popup was listening), read/write (outcome of its device read and write),
\* snapWrote/cleared (snapshot stored/cleared), start... (the store and lamp when its
\* message arrived), overlapped (another handler was suspended when it started)
IdleHandler ==
    [pc |-> "idle", status |-> NO_STATUS, previousStatus |-> NULL, save |-> FALSE,
     m |-> FALSE, state |-> None, accepted |-> FALSE, bcast |-> FALSE,
     read |-> "none", snapWrote |-> FALSE, write |-> "none", wstate |-> None,
     cleared |-> FALSE, startStatus |-> NO_STATUS, startWarning |-> FALSE,
     startEnabled |-> FALSE, startSnap |-> None, overlapped |-> FALSE,
     startLight |-> None, sent |-> << >>, heard |-> FALSE]

Running(s) == h[s].pc \notin {"idle", "done"}
NoneRunning == \A s \in Slots : ~Running(s)

\* what is kept of the handler that ran before the one now in the slot
\* (fresh: it started from canonical NO_STATUS with no snapshot stored)
Summary(r) ==
    [pc |-> r.pc, status |-> r.status, save |-> r.save,
     fresh |-> (r.startStatus = NO_STATUS /\ r.startSnap = None),
     read |-> r.read, snapWrote |-> r.snapWrote]

\* the popup: closed, running its initial GET_STATUS query, or open and listening
ClosedPopup == [pc |-> "closed", enabled |-> FALSE, answer |-> NULL]

\* the detector of the Meet page: its variables (lastKnownStatus, isExtensionValid,
\* observer, debounceTimer, intervalId, the visibilitychange listener), the document
\* it watches, and what happened last (unloadSent: the unload message was sent;
\* unloaded: the beforeunload listener has run; sendFailed: a send was rejected
\* because the receiver is gone; afterSnapshot: the user closed the tab, or left the
\* call in a tab that has been visible since, while the snapshot of the original state
\* was stored; deduped: the latest event was a recompute on a visible page that found
\* the computed status equal to lastKnownStatus; skipped: the latest event was a
\* recompute that returned because the document was hidden; lastSent: the status of
\* the message this page's detector sent last, null if it sent none)
\* the service worker is up (pc: position of initializeOnStartup's getStatus)
WorkerUp == [pc |-> "up"]

ClosedDetector ==
    [loaded |-> FALSE, lastKnownStatus |-> NULL, visible |-> FALSE, callEnd |-> FALSE,
     isExtensionValid |-> TRUE, observer |-> FALSE, debounceTimer |-> FALSE,
     intervalId |-> FALSE, listening |-> FALSE, unloadSent |-> FALSE,
     unloaded |-> FALSE, sendFailed |-> FALSE, afterSnapshot |-> FALSE,
     deduped |-> FALSE, skipped |-> FALSE, lastSent |-> NULL]

\* the page's clock (ms) and the detector's timers: pending holds the due time of every
\* debounce timeout not yet fired or cleared; of the current burst of mutation signals:
\* n (signals so far), first and lastSignal (when they came), chained (each came less
\* than the debounce delay after the one before), runs and ranAt (debounced recomputes);
\* interval and debounce: the time left until the interval timer and the debounce
\* timeout fire, where the two are counted down (None: not set)
\* a call of the device client: its position in fetchWithRetry and in the method (pc),
\* the method (op) and the state it is given (arg), the loop counter (attempt), the
\* HTTP requests issued and how many were rejected at network level, the backoff
\* delays waited (ms), the bridge's answer (body), and what the method returned
\* (result: "null", "true", "false", "state" with the light state in value, or "data")
IdleClient ==
    [pc |-> "idle", op |-> "none", arg |-> None, attempt |-> 0, requests |-> 0,
     failures |-> 0, waits |-> << >>, body |-> None, result |-> "none", value |-> None]
\* the conversion last applied: function, argument, result
NoConversion == [fn |-> "none", x |-> 0, y |-> 0]

\* chrome.storage (local and session) with no key stored
EmptyStorage ==
    [meetingHue |-> None, meetingSat |-> None, meetingBri |-> None,
     warningColorHue |-> None, warningColorSat |-> None, warningColorBri |-> None,
     warningColorEnabled |-> None, currentMeetingStatus |-> None,
     currentWarningStatus |-> None, previousLightState |-> None]

\* the getter last called and its result: a colour, a flag, or a light state (null is
\* None)
NoRead ==
    [fn |-> "none", color |-> [hue |-> 0, sat |-> 0, bri |-> 0], flag |-> FALSE,
     state |-> None]

\* handleTestColor of the settings page: its position (pc), the colour under test,
\* savedState (None until read), the device writes it issued and their outcomes, and
\* the delay of its timeout (ms, 0 until set); runs: how often it has been called
IdleTest ==
    [pc |-> "idle", color |-> [on |-> TRUE, hue |-> 0, sat |-> 0, bri |-> 0],
     savedState |-> None, writes |-> 0, applied |-> "none", restored |-> "none",
     delay |-> 0, runs |-> 0]

NoTimers ==
    [now |-> 0, pending |-> {}, n |-> 0, first |-> 0, lastSignal |-> 0,
     chained |-> TRUE, runs |-> 0, ranAt |-> 0, interval |-> None, debounce |-> None]

Init ==
    /\ currentMeetingStatus = FALSE
    /\ currentWarningStatus = FALSE
    /\ previousLightState = None
    /\ warningColorEnabled \in BOOLEAN
    /\ bridgeConfig \in BridgeConfigs
    /\ bridgeReliable \in BOOLEAN
    \* reliability only matters for a bridge the client will talk to
    /\ bridgeReliable =>
          /\ isConfigured(bridgeConfig.bridgeIp, bridgeConfig.username)
          /\ bridgeConfig.lightId # ""
    /\ light \in OriginalLights
    /\ h = [s \in Slots |-> IdleHandler]
    /\ last = Summary(IdleHandler)
    /\ newest = 1
    /\ lastWriter = 0
    /\ popup = ClosedPopup
    /\ det = ClosedDetector
    /\ channel = << >>
    /\ dispatched = 0
    /\ original = light
    /\ worker = WorkerUp
    /\ timers = NoTimers
    /\ client = IdleClient
    /\ conv = NoConversion
    /\ storage = EmptyStorage
    /\ got = NoRead
    /\ test = IdleTest

(***************************************************************************)
(* Coordinator: the runtime.onMessage listener and the three handlers.     *)
(***************************************************************************)
\* variant of the listener's flag that asks for a snapshot on every message
AlwaysSnapshot(previousStatus) == TRUE

\* variant of the listener's flag that asks for a snapshot unless the sender was in a call
SnapshotUnlessInMeeting(previousStatus) == previousStatus # IN_MEETING

\* listener: snapshot wanted iff the sender came from NO_STATUS or from null
savePreviousLightStateFlag(previousStatus) ==
    previousStatus = NO_STATUS \/ previousStatus = NULL

\* variant of the colour guard that pushes the colour whatever the snapshot's outcome
AlwaysSetColor(save, saved) == TRUE

\* variant of the guard that pushes the colour only after a snapshot was saved
SetColorOnlyAfterSnapshot(save, saved) == saved

\* the guard in front of setLightToMeetingColor / setLightToWarningColor
ShouldSetColor(save, saved) == save = FALSE \/ saved

\* getHueClient: TRUE iff a client is returned (all three fields present, valid address)
getHueClient(config) ==
    /\ config.bridgeIp # << >>
    /\ config.username # ""
    /\ config.lightId # ""
    /\ isConfigured(config.bridgeIp, config.username)

\* outcome of one device request (after the client's retries)
DeviceOutcomes == IF bridgeReliable THEN {"ok"} ELSE {"ok", "fail"}

\* HueClient.getLightState / setLightState: no request ("skip", the call returns
\* null / false at once) unless the client is configured and a light id is given
ClientOutcomes ==
    IF isConfigured(bridgeConfig.bridgeIp, bridgeConfig.username)
          /\ bridgeConfig.lightId # ""
    THEN DeviceOutcomes ELSE {"skip"}

\* what a handler records of a device call's outcome
Recorded(outcome) == IF outcome = "skip" THEN "none" ELSE outcome

\* variant that pushes the meeting colour for every status
MeetingColorOnly(status) == apiState(getMeetingColor)

\* the colour a handler pushes
ColorFor(status) ==
    IF status = IN_MEETING THEN apiState(getMeetingColor) ELSE apiState(getWarningColor)

\* the duplicate checks at the top of the handlers
AlreadyInMeeting(meetingStatus) == meetingStatus = TRUE
AlreadyInWarning(warningStatus) == warningStatus = TRUE
\* variant of the NoStatus duplicate check that looks at the meeting flag only
NotInMeetingOnly(meetingStatus, warningStatus) == meetingStatus = FALSE

AlreadyNoStatus(meetingStatus, warningStatus) ==
    meetingStatus = FALSE /\ warningStatus = FALSE

FreeSlot(s) == ~Running(s) /\ \A t \in Slots : t < s => Running(t)

\* a Status message reaches the listener, which starts the handler for it
OnMessage(msg) ==
    \E s \in Slots :
        /\ FreeSlot(s)
        /\ last' = IF h[s].pc = "done" THEN Summary(h[s]) ELSE last
        /\ h' = [h EXCEPT ![s] =
                    [IdleHandler EXCEPT
                        !.pc = "get",
                        !.status = msg.status,
                        !.previousStatus = msg.previousStatus,
                        !.save = savePreviousLightStateFlag(msg.previousStatus),
                        !.startStatus = StatusOf(currentMeetingStatus,
                                                 warningColorEnabled,
                                                 currentWarningStatus),
                        !.startWarning = currentWarningStatus,
                        !.startEnabled = warningColorEnabled,
                        !.startSnap = previousLightState,
                        !.startLight = Some(light),
                        !.overlapped = \E t \in Slots : t # s /\ Running(t)]]
        /\ newest' = s
        /\ lastWriter' = IF lastWriter = s THEN 0 ELSE lastWriter
        /\ UNCHANGED << storeVars, warningColorEnabled, bridgeConfig,
                        bridgeReliable, light, popup >>

coordFrame == << warningColorEnabled, bridgeConfig, bridgeReliable, last, newest,
                 det, channel, dispatched, original, worker, libVars >>

\* broadcastStatusChange: an open popup shows the status, otherwise the send fails
\* and the rejection is swallowed
broadcastStatusChange(status) ==
    popup' = IF popup.pc = "closed" THEN popup ELSE [popup EXCEPT !.answer = status]

\* first await of each handler: getMeetingStatus / getWarningStatus
HandlerGetStatus(s) ==
    /\ h[s].pc = "get"
    /\ h' = [h EXCEPT ![s] =
                IF h[s].status = IN_MEETING
                THEN IF AlreadyInMeeting(currentMeetingStatus)
                     THEN [@ EXCEPT !.pc = "done"]
                     ELSE [@ EXCEPT !.pc = "setM", !.accepted = TRUE]
                ELSE IF h[s].status = WARNING
                THEN IF AlreadyInWarning(currentWarningStatus)
                     THEN [@ EXCEPT !.pc = "done"]
                     ELSE [@ EXCEPT !.pc = "setM", !.accepted = TRUE]
                ELSE [@ EXCEPT !.pc = "get2", !.m = currentMeetingStatus]]
    /\ UNCHANGED << storeVars, light, lastWriter, popup, coordFrame >>

\* handleSetNotInMeeting: second read of the Promise.all, then the duplicate check
HandlerGetWarningStatus(s) ==
    /\ h[s].pc = "get2"
    /\ h' = [h EXCEPT ![s] =
                IF AlreadyNoStatus(h[s].m, currentWarningStatus)
                THEN [@ EXCEPT !.pc = "done"]
                ELSE [@ EXCEPT !.pc = "setM", !.accepted = TRUE]]
    /\ UNCHANGED << storeVars, light, lastWriter, popup, coordFrame >>

\* variant that broadcasts as soon as the meeting flag is stored
SetMeetingStatusBroadcastsFirst(s) ==
    /\ h[s].pc = "setM"
    /\ currentMeetingStatus' = (h[s].status = IN_MEETING)
    /\ broadcastStatusChange(h[s].status)
    /\ h' = [h EXCEPT ![s] = [@ EXCEPT !.bcast = TRUE, !.pc = "setW"]]
    /\ UNCHANGED << currentWarningStatus, previousLightState, light, lastWriter,
                    coordFrame >>

\* await setMeetingStatus(...)
HandlerSetMeetingStatus(s) ==
    /\ h[s].pc = "setM"
    /\ currentMeetingStatus' = (h[s].status = IN_MEETING)
    /\ h' = [h EXCEPT ![s].pc = "setW"]
    /\ UNCHANGED << currentWarningStatus, previousLightState, light, lastWriter,
                    popup, coordFrame >>

\* variant in which a broadcast nobody hears ends the handler
SetWarningStatusStopsWhenUnheard(s) ==
    /\ h[s].pc = "setW"
    /\ currentWarningStatus' = (h[s].status = WARNING)
    /\ broadcastStatusChange(h[s].status)
    /\ h' = [h EXCEPT ![s] =
                [@ EXCEPT !.bcast = TRUE,
                          !.sent = Append(@, h[s].status),
                          !.heard = (popup.pc # "closed"),
                          !.pc = IF popup.pc = "closed" THEN "done"
                                 ELSE IF h[s].status = NO_STATUS THEN "rest_cfg"
                                 ELSE IF h[s].save = TRUE THEN "save_cfg"
                                 ELSE "color_cfg"]]
    /\ UNCHANGED << currentMeetingStatus, previousLightState, light, lastWriter,
                    coordFrame >>

\* await setWarningStatus(...), then broadcastStatusChange and the call that follows
HandlerSetWarningStatus(s) ==
    /\ h[s].pc = "setW"
    /\ currentWarningStatus' = (h[s].status = WARNING)
    /\ broadcastStatusChange(h[s].status)
    /\ h' = [h EXCEPT ![s] =
                [@ EXCEPT !.bcast = TRUE,
                          !.sent = Append(@, h[s].status),
                          !.heard = (popup.pc # "closed"),
                          !.pc = IF h[s].status = NO_STATUS THEN "rest_cfg"
                                 ELSE IF h[s].save = TRUE THEN "save_cfg"
                                 ELSE IF ShouldSetColor(h[s].save, FALSE) THEN "color_cfg"
                                 ELSE "done"]]
    /\ UNCHANGED << currentMeetingStatus, previousLightState, light, lastWriter,
                    coordFrame >>

\* saveLightState: await getHueClient()
SaveGetHueClient(s) ==
    /\ h[s].pc = "save_cfg"
    /\ h' = [h EXCEPT ![s].pc =
                IF getHueClient(bridgeConfig) THEN "save_read"
                ELSE IF ShouldSetColor(h[s].save, FALSE) THEN "color_cfg" ELSE "done"]
    /\ UNCHANGED << storeVars, light, lastWriter, popup, coordFrame >>

\* variant in which a failed read undoes the transition
SaveGetLightStateRollsBack(s) ==
    /\ h[s].pc = "save_read"
    /\ \E outcome \in DeviceOutcomes :
         IF outcome = "ok"
         THEN /\ h' = [h EXCEPT ![s] =
                          [@ EXCEPT !.read = "ok", !.state = Some(light),
                                    !.pc = "save_store"]]
              /\ UNCHANGED << currentMeetingStatus, currentWarningStatus >>
         ELSE /\ h' = [h EXCEPT ![s] = [@ EXCEPT !.read = "fail", !.pc = "done"]]
              /\ currentMeetingStatus' = FALSE
              /\ currentWarningStatus' = FALSE
    /\ UNCHANGED << previousLightState, light, lastWriter, popup, coordFrame >>

\* saveLightState: await hue.client.getLightState(lightId)
SaveGetLightState(s) ==
    /\ h[s].pc = "save_read"
    /\ \E outcome \in ClientOutcomes :
         h' = [h EXCEPT ![s] =
                  IF outcome = "ok"
                  THEN [@ EXCEPT !.read = "ok", !.state = Some(light), !.pc = "save_store"]
                  ELSE [@ EXCEPT !.read = Recorded(outcome),
                                 !.pc = IF ShouldSetColor(h[s].save, FALSE)
                                        THEN "color_cfg" ELSE "done"]]
    /\ UNCHANGED << storeVars, light, lastWriter, popup, coordFrame >>

\* saveLightState: await savePreviousLightState(state); returns true
SaveStore(s) ==
    /\ h[s].pc = "save_store"
    /\ previousLightState' = h[s].state
    /\ h' = [h EXCEPT ![s] =
                [@ EXCEPT !.snapWrote = TRUE,
                          !.pc = IF ShouldSetColor(h[s].save, TRUE)
                                 THEN "color_cfg" ELSE "done"]]
    /\ UNCHANGED << currentMeetingStatus, currentWarningStatus, light, lastWriter,
                    popup, coordFrame >>

\* setLightTo...Color: await getHueClient()
ColorGetHueClient(s) ==
    /\ h[s].pc = "color_cfg"
    /\ h' = [h EXCEPT ![s].pc =
                IF getHueClient(bridgeConfig) THEN "color_get" ELSE "done"]
    /\ UNCHANGED << storeVars, light, lastWriter, popup, coordFrame >>

\* setLightTo...Color: await getMeetingColor() / getWarningColor(), build apiState
ColorGetColor(s) ==
    /\ h[s].pc = "color_get"
    /\ h' = [h EXCEPT ![s] =
                [@ EXCEPT !.state = Some(ColorFor(h[s].status)), !.pc = "color_put"]]
    /\ UNCHANGED << storeVars, light, lastWriter, popup, coordFrame >>

\* setLightTo...Color: await hue.client.setLightState(lightId, apiState)
ColorSetLightState(s) ==
    /\ h[s].pc = "color_put"
    /\ \E outcome \in ClientOutcomes :
         /\ light' = IF outcome = "ok" THEN h[s].state[1] ELSE light
         /\ h' = [h EXCEPT ![s] =
                     [@ EXCEPT !.write = Recorded(outcome), !.wstate = h[s].state,
                               !.pc = "done"]]
         /\ lastWriter' = IF outcome = "skip" THEN lastWriter ELSE s
    /\ UNCHANGED << storeVars, popup, coordFrame >>

\* restoreLightState: await getHueClient()
RestoreGetHueClient(s) ==
    /\ h[s].pc = "rest_cfg"
    /\ h' = [h EXCEPT ![s].pc =
                IF getHueClient(bridgeConfig) THEN "rest_get" ELSE "done"]
    /\ UNCHANGED << storeVars, light, lastWriter, popup, coordFrame >>

\* variant that writes to the lamp although no snapshot is stored
RestoreWithoutSnapshot(s) ==
    /\ h[s].pc = "rest_get"
    /\ h' = [h EXCEPT ![s] =
                [@ EXCEPT !.state = IF previousLightState = None THEN Some(light)
                                    ELSE previousLightState,
                          !.pc = "rest_put"]]
    /\ UNCHANGED << storeVars, light, lastWriter, popup, coordFrame >>

\* restoreLightState: await getPreviousLightState()
RestoreGetPrevious(s) ==
    /\ h[s].pc = "rest_get"
    /\ h' = [h EXCEPT ![s] =
                IF previousLightState = None
                THEN [@ EXCEPT !.pc = "done"]
                ELSE [@ EXCEPT !.state = previousLightState, !.pc = "rest_put"]]
    /\ UNCHANGED << storeVars, light, lastWriter, popup, coordFrame >>

\* variant of the restore that goes on to clear the snapshot whatever the write did
RestoreSetLightStateThenClear(s) ==
    /\ h[s].pc = "rest_put"
    /\ \E outcome \in ClientOutcomes :
         /\ light' = IF outcome = "ok" THEN h[s].state[1] ELSE light
         /\ h' = [h EXCEPT ![s] =
                     [@ EXCEPT !.write = Recorded(outcome), !.wstate = h[s].state,
                               !.pc = "rest_clear"]]
         /\ lastWriter' = IF outcome = "skip" THEN lastWriter ELSE s
    /\ UNCHANGED << storeVars, popup, coordFrame >>

\* restoreLightState: await hue.client.setLightState(lightId, previousState)
RestoreSetLightState(s) ==
    /\ h[s].pc = "rest_put"
    /\ \E outcome \in ClientOutcomes :
         /\ light' = IF outcome = "ok" THEN h[s].state[1] ELSE light
         /\ h' = [h EXCEPT ![s] =
                     [@ EXCEPT !.write = Recorded(outcome), !.wstate = h[s].state,
                               !.pc = IF outcome = "ok" THEN "rest_clear" ELSE "done"]]
         /\ lastWriter' = IF outcome = "skip" THEN lastWriter ELSE s
    /\ UNCHANGED << storeVars, popup, coordFrame >>

\* variant of the last restore step that never clears the snapshot
RestoreKeepsSnapshot(s) ==
    /\ h[s].pc = "rest_clear"
    /\ h' = [h EXCEPT ![s] = [@ EXCEPT !.pc = "done"]]
    /\ UNCHANGED << storeVars, light, lastWriter, popup, coordFrame >>

\* restoreLightState: await clearPreviousLightState()
RestoreClear(s) ==
    /\ h[s].pc = "rest_clear"
    /\ previousLightState' = None
    /\ h' = [h EXCEPT ![s] = [@ EXCEPT !.cleared = TRUE, !.pc = "done"]]
    /\ UNCHANGED << currentMeetingStatus, currentWarningStatus, light, lastWriter,
                    popup, coordFrame >>

(***************************************************************************)
(* Popup: GET_STATUS, answered by getStatus() of the store module.         *)
(***************************************************************************)
PopupBusy == popup.pc \in {"getM", "getE", "getW"}

\* the popup is opened: fetchInitialState sends GET_STATUS, the listener calls getStatus()
PopupQuery ==
    /\ popup.pc = "closed"
    /\ popup' = [pc |-> "getM", enabled |-> FALSE, answer |-> NULL]
    /\ UNCHANGED << storeVars, warningColorEnabled, bridgeConfig, bridgeReliable,
                    light, h, last, newest, lastWriter, det, channel, dispatched, original, worker, libVars >>

\* the popup is closed
PopupClose ==
    /\ popup.pc = "open"
    /\ popup' = ClosedPopup
    /\ UNCHANGED << storeVars, warningColorEnabled, bridgeConfig, bridgeReliable,
                    light, h, last, newest, lastWriter, det, channel, dispatched, original, worker, libVars >>

\* getStatus: await getMeetingStatus()
GetStatusMeeting ==
    /\ popup.pc = "getM"
    /\ popup' = IF currentMeetingStatus
                THEN [popup EXCEPT !.pc = "open", !.answer = IN_MEETING]
                ELSE [popup EXCEPT !.pc = "getE"]
    /\ UNCHANGED << storeVars, warningColorEnabled, bridgeConfig, bridgeReliable,
                    light, h, last, newest, lastWriter, det, channel, dispatched, original, worker, libVars >>

\* variant of getStatus that reads the warning flag whatever the setting
GetStatusIgnoresEnabled ==
    /\ popup.pc = "getE"
    /\ popup' = [popup EXCEPT !.pc = "getW", !.enabled = warningColorEnabled]
    /\ UNCHANGED << storeVars, warningColorEnabled, bridgeConfig, bridgeReliable,
                    light, h, last, newest, lastWriter, det, channel, dispatched, original, worker, libVars >>

\* getStatus: await getWarningColorEnabled()
GetStatusEnabled ==
    /\ popup.pc = "getE"
    /\ popup' = IF warningColorEnabled = TRUE
                THEN [popup EXCEPT !.pc = "getW", !.enabled = TRUE]
                ELSE [popup EXCEPT !.pc = "open", !.answer = NO_STATUS]
    /\ UNCHANGED << storeVars, warningColorEnabled, bridgeConfig, bridgeReliable,
                    light, h, last, newest, lastWriter, det, channel, dispatched, original, worker, libVars >>

\* getStatus: await getWarningStatus(), then sendResponse({status})
GetStatusWarning ==
    /\ popup.pc = "getW"
    /\ popup' = [popup EXCEPT !.pc = "open", !.enabled = FALSE,
                              !.answer = IF currentWarningStatus THEN WARNING
                                         ELSE NO_STATUS]
    /\ UNCHANGED << storeVars, warningColorEnabled, bridgeConfig, bridgeReliable,
                    light, h, last, newest, lastWriter, det, channel, dispatched, original, worker, libVars >>

\* the settings page stores the warning-colour checkbox
SaveWarningColorEnabled ==
    /\ \E enabled \in BOOLEAN :
         /\ enabled # warningColorEnabled
         /\ warningColorEnabled' = enabled
    /\ UNCHANGED << storeVars, bridgeConfig, bridgeReliable, light, h, last, newest,
                    lastWriter, popup, det, channel, dispatched, original, worker, libVars >>

(***************************************************************************)
(* Specification of the coordinator with handlers run one after another:   *)
(* a message or query arrives only when no handler or query is in progress.*)
(***************************************************************************)
Msgs == [status : STATUS_TYPES, previousStatus : STATUS_TYPES \cup {NULL}]

ReceiveStatus ==
    /\ NoneRunning
    /\ ~PopupBusy
    /\ worker.pc = "up"
    /\ \E msg \in Msgs : OnMessage(msg)
    /\ worker' = WorkerUp
    /\ UNCHANGED << envVars, libVars >>

PopupQueryAtRest == NoneRunning /\ worker.pc = "up" /\ PopupQuery

\* the browser stops the idle service worker and starts it again: initializeOnStartup
WorkerRestart ==
    /\ NoneRunning
    /\ ~PopupBusy
    /\ worker.pc = "up"
    /\ worker' = [pc |-> "getM"]
    /\ UNCHANGED << storeVars, warningColorEnabled, bridgeConfig, bridgeReliable, light,
                    h, last, newest, lastWriter, popup, det, channel, dispatched,
                    original, libVars >>

\* variant of the start-up that pushes the meeting colour again when it finds a meeting
StartupReappliesColor ==
    /\ worker.pc = "getM"
    /\ worker' = IF currentMeetingStatus THEN WorkerUp
                 ELSE [worker EXCEPT !.pc = "getE"]
    /\ light' = IF currentMeetingStatus /\ getHueClient(bridgeConfig)
                THEN apiState(getMeetingColor) ELSE light
    /\ UNCHANGED << storeVars, warningColorEnabled, bridgeConfig, bridgeReliable,
                    h, last, newest, lastWriter, popup, det, channel, dispatched,
                    original, libVars >>

\* initializeOnStartup, getStatus: await getMeetingStatus()
StartupGetMeeting ==
    /\ worker.pc = "getM"
    /\ worker' = IF currentMeetingStatus THEN WorkerUp
                 ELSE [worker EXCEPT !.pc = "getE"]
    /\ UNCHANGED << storeVars, warningColorEnabled, bridgeConfig, bridgeReliable, light,
                    h, last, newest, lastWriter, popup, det, channel, dispatched,
                    original, libVars >>

\* initializeOnStartup, getStatus: await getWarningColorEnabled()
StartupGetEnabled ==
    /\ worker.pc = "getE"
    /\ worker' = IF warningColorEnabled = TRUE THEN [worker EXCEPT !.pc = "getW"]
                 ELSE WorkerUp
    /\ UNCHANGED << storeVars, warningColorEnabled, bridgeConfig, bridgeReliable, light,
                    h, last, newest, lastWriter, popup, det, channel, dispatched,
                    original, libVars >>

\* initializeOnStartup, getStatus: await getWarningStatus(); the status is only logged
StartupGetWarning ==
    /\ worker.pc = "getW"
    /\ worker' = WorkerUp
    /\ UNCHANGED << storeVars, warningColorEnabled, bridgeConfig, bridgeReliable, light,
                    h, last, newest, lastWriter, popup, det, channel, dispatched,
                    original, libVars >>

NextSeq ==
    \/ ReceiveStatus
    \/ \E s \in Slots : HandlerGetStatus(s)
    \/ \E s \in Slots : HandlerGetWarningStatus(s)
    \/ \E s \in Slots : HandlerSetMeetingStatus(s)
    \/ \E s \in Slots : HandlerSetWarningStatus(s)
    \/ \E s \in Slots : SaveGetHueClient(s)
    \/ \E s \in Slots : SaveGetLightState(s)
    \/ \E s \in Slots : SaveStore(s)
    \/ \E s \in Slots : ColorGetHueClient(s)
    \/ \E s \in Slots : ColorGetColor(s)
    \/ \E s \in Slots : ColorSetLightState(s)
    \/ \E s \in Slots : RestoreGetHueClient(s)
    \/ \E s \in Slots : RestoreGetPrevious(s)
    \/ \E s \in Slots : RestoreSetLightState(s)
    \/ \E s \in Slots : RestoreClear(s)
    \/ PopupQueryAtRest
    \/ WorkerRestart
    \/ StartupGetMeeting
    \/ StartupGetEnabled
    \/ StartupGetWarning
    \/ PopupClose
    \/ GetStatusMeeting
    \/ GetStatusEnabled
    \/ GetStatusWarning
    \/ SaveWarningColorEnabled

SpecSeq == Init /\ [][NextSeq]_vars

(***************************************************************************)
(* Detector (content script of the Meet page).                             *)
(***************************************************************************)
\* sendStatus: the message enters the runtime channel unless the detector is disabled
sendStatus(d, ch, status, previousStatus) ==
    IF ~d.isExtensionValid THEN ch
    ELSE Append(ch, [status |-> status, previousStatus |-> previousStatus])

\* isInMeeting() on a visible page: the status checkAndNotify computes
ComputedStatus(d) == IF d.callEnd THEN IN_MEETING ELSE WARNING

\* variant of checkAndNotify without deduplication
checkAndNotifyAlways(d, ch) ==
    IF ~d.isExtensionValid \/ ~d.visible THEN << d, ch >>
    ELSE << [d EXCEPT !.lastKnownStatus = ComputedStatus(d)],
            sendStatus(d, ch, ComputedStatus(d), d.lastKnownStatus) >>

\* variant of checkAndNotify that does not look at the document's visibility
checkAndNotifyWhileHidden(d, ch) ==
    IF ~d.isExtensionValid THEN << d, ch >>
    ELSE IF d.lastKnownStatus # ComputedStatus(d)
         THEN << [d EXCEPT !.lastKnownStatus = ComputedStatus(d)],
                 sendStatus(d, ch, ComputedStatus(d), d.lastKnownStatus) >>
         ELSE << d, ch >>

\* variant of checkAndNotify that reports NO_STATUS when it finds the document hidden
checkAndNotifyDemotesHidden(d, ch) ==
    IF ~d.isExtensionValid THEN << d, ch >>
    ELSE IF ~d.visible
         THEN IF d.lastKnownStatus \in {WARNING, IN_MEETING}
              THEN << [d EXCEPT !.lastKnownStatus = NO_STATUS],
                      sendStatus(d, ch, NO_STATUS, d.lastKnownStatus) >>
              ELSE << d, ch >>
    ELSE IF d.lastKnownStatus # ComputedStatus(d)
         THEN << [d EXCEPT !.lastKnownStatus = ComputedStatus(d)],
                 sendStatus(d, ch, ComputedStatus(d), d.lastKnownStatus) >>
         ELSE << d, ch >>

\* checkAndNotify: the detector record and the channel after one recompute
checkAndNotify(d, ch) ==
    IF ~d.isExtensionValid \/ ~d.visible THEN << d, ch >>
    ELSE IF d.callEnd
         THEN IF d.lastKnownStatus # IN_MEETING
              THEN << [d EXCEPT !.lastKnownStatus = IN_MEETING],
                      sendStatus(d, ch, IN_MEETING, d.lastKnownStatus) >>
              ELSE << d, ch >>
         ELSE IF d.lastKnownStatus # WARNING
              THEN << [d EXCEPT !.lastKnownStatus = WARNING],
                      sendStatus(d, ch, WARNING, d.lastKnownStatus) >>
              ELSE << d, ch >>

\* variant of handleVisibilityChange that demotes from any status when hidden
handleVisibilityChangeDemotesAll(d, ch) ==
    IF ~d.isExtensionValid THEN << d, ch >>
    ELSE IF d.visible THEN checkAndNotify(d, ch)
    ELSE << [d EXCEPT !.lastKnownStatus = NO_STATUS],
            sendStatus(d, ch, NO_STATUS, d.lastKnownStatus) >>

\* variant of handleVisibilityChange that acts only when the document becomes hidden
handleVisibilityChangeHiddenOnly(d, ch) ==
    IF ~d.isExtensionValid \/ d.visible THEN << d, ch >>
    ELSE IF d.lastKnownStatus = WARNING
         THEN << [d EXCEPT !.lastKnownStatus = NO_STATUS],
                 sendStatus(d, ch, NO_STATUS, d.lastKnownStatus) >>
         ELSE << d, ch >>

\* variant of handleVisibilityChange that forgets to record the status it sent
handleVisibilityChangeKeepsStatus(d, ch) ==
    IF ~d.isExtensionValid THEN << d, ch >>
    ELSE IF d.visible THEN checkAndNotify(d, ch)
    ELSE IF d.lastKnownStatus = WARNING
         THEN << d, sendStatus(d, ch, NO_STATUS, d.lastKnownStatus) >>
         ELSE << d, ch >>

\* handleVisibilityChange, run after the document's visibility has changed
handleVisibilityChange(d, ch) ==
    IF ~d.isExtensionValid THEN << d, ch >>
    ELSE IF d.visible THEN checkAndNotify(d, ch)
    ELSE IF d.lastKnownStatus = WARNING
         THEN << [d EXCEPT !.lastKnownStatus = NO_STATUS],
                 sendStatus(d, ch, NO_STATUS, d.lastKnownStatus) >>
         ELSE << d, ch >>

\* the detector moves to (d, ch); the messages it appends count against the bound
DetectorSteps(d, ch) ==
    /\ dispatched + (Len(ch) - Len(channel)) <= MaxDetectorMessages
    /\ det' = IF Len(ch) > Len(channel) THEN [d EXCEPT !.lastSent = ch[Len(ch)].status]
              ELSE d
    /\ channel' = ch
    /\ dispatched' = dispatched + (Len(ch) - Len(channel))
    /\ UNCHANGED << storeVars, warningColorEnabled, bridgeConfig, bridgeReliable,
                    light, h, last, newest, lastWriter, popup, original, worker,
                    client, conv, storage, got, test >>

\* the same, in a specification that does not follow the clock
DetectorMoves(d, ch) == DetectorSteps(d, ch) /\ UNCHANGED timers

AtRest == NoneRunning /\ channel = << >>

\* variant of cleanup that releases nothing
cleanupNothing(d) == d

\* whether a recompute of detector d returns at the visibility check
Skipped(d) == d.isExtensionValid /\ ~d.visible

\* whether a recompute of detector d is a deduplicated one
Deduplicated(d) ==
    d.isExtensionValid /\ d.visible /\ ComputedStatus(d) = d.lastKnownStatus

\* cleanup: disconnect the observer, clear both timers, remove the visibility listener
cleanup(d) ==
    [d EXCEPT !.observer = FALSE, !.debounceTimer = FALSE, !.intervalId = FALSE,
              !.listening = FALSE]

\* a Meet page is opened and the content script runs initialize(): an immediate
\* checkAndNotify, then the listener, the observer and the interval are set up
PageLoad ==
    /\ ~det.loaded
    /\ \E v \in BOOLEAN, c \in BOOLEAN :
         LET d == [ClosedDetector EXCEPT !.loaded = TRUE, !.visible = v, !.callEnd = c]
             r == checkAndNotify(d, channel)
         IN DetectorMoves([r[1] EXCEPT !.listening = TRUE, !.observer = TRUE,
                                       !.intervalId = TRUE], r[2])

\* the interval timer fires: checkAndNotify
Recompute ==
    /\ det.intervalId
    /\ LET r == checkAndNotify(det, channel)
       IN DetectorMoves([r[1] EXCEPT !.deduped = Deduplicated(det),
                                       !.skipped = Skipped(det)], r[2])

\* the observer reports a mutation of the document: debouncedCheck (re)arms the timer
DebouncedCheck ==
    /\ det.observer /\ ~det.debounceTimer
    /\ DetectorMoves([det EXCEPT !.debounceTimer = TRUE], channel)

\* the debounce timer fires: checkAndNotify
DebounceFires ==
    /\ det.debounceTimer
    /\ LET r == checkAndNotify([det EXCEPT !.debounceTimer = FALSE], channel)
       IN DetectorMoves([r[1] EXCEPT !.deduped = Deduplicated(det),
                                       !.skipped = Skipped(det)], r[2])

\* the user joins the call: the call_end control appears in the document
JoinCall ==
    /\ det.loaded /\ ~det.callEnd
    /\ DetectorMoves([det EXCEPT !.callEnd = TRUE, !.afterSnapshot = FALSE,
                                 !.deduped = FALSE, !.skipped = FALSE], channel)

\* the call ends: the call_end control disappears from the document
LeaveCall ==
    /\ det.loaded /\ det.callEnd
    /\ DetectorMoves([det EXCEPT !.callEnd = FALSE,
                                 !.deduped = FALSE, !.skipped = FALSE,
                                 !.afterSnapshot =
                                     /\ det.lastKnownStatus = IN_MEETING
                                     /\ det.visible
                                     /\ AtRest
                                     /\ currentMeetingStatus
                                     /\ previousLightState = Some(original)],
                     channel)

\* the user switches tabs: visibilitychange, handled while the listener is registered
VisibilityChange ==
    /\ det.loaded
    /\ LET d == [det EXCEPT !.visible = ~det.visible, !.afterSnapshot = FALSE,
                            !.deduped = FALSE, !.skipped = FALSE]
           r == IF det.listening THEN handleVisibilityChange(d, channel)
                ELSE << d, channel >>
       IN DetectorMoves(r[1], r[2])

\* the page is closed: the beforeunload listener, then cleanup()
Unload ==
    /\ det.loaded
    /\ LET notify == det.lastKnownStatus # NULL /\ det.lastKnownStatus # NO_STATUS
           ch == IF notify
                 THEN sendStatus(det, channel, NO_STATUS, det.lastKnownStatus)
                 ELSE channel
           d == [cleanup(det) EXCEPT
                    !.loaded = FALSE,
                    !.unloaded = TRUE,
                    !.deduped = FALSE, !.skipped = FALSE,
                    !.unloadSent = (ch # channel),
                    !.afterSnapshot =
                        \/ det.afterSnapshot
                        \/ (notify /\ AtRest /\ previousLightState = Some(original))]
       IN DetectorMoves(d, ch)

\* the runtime delivers the oldest message to the coordinator's listener
Deliver ==
    /\ channel # << >>
    /\ OnMessage(Head(channel))
    /\ channel' = Tail(channel)
    /\ UNCHANGED << det, dispatched, original, worker, libVars >>

\* variant of handleExtensionError that leaves the detector running
handleExtensionErrorIgnored(d, receiverGone) ==
    IF receiverGone
    THEN [d EXCEPT !.sendFailed = TRUE, !.deduped = FALSE, !.skipped = FALSE]
    ELSE d

\* handleExtensionError: a rejection naming a gone receiver ('Extension context
\* invalidated', 'Could not establish connection') disables the detector
handleExtensionError(d, receiverGone) ==
    IF receiverGone
    THEN [cleanup(d) EXCEPT !.isExtensionValid = FALSE, !.sendFailed = TRUE,
                            !.deduped = FALSE, !.skipped = FALSE]
    ELSE d

\* the runtime rejects the oldest message: it is lost, and the promise's catch runs
\* handleExtensionError in the page if the page is still there
SendFails ==
    /\ channel # << >>
    /\ \E receiverGone \in BOOLEAN :
         det' = IF det.loaded THEN handleExtensionError(det, receiverGone) ELSE det
    /\ channel' = Tail(channel)
    /\ dispatched' = dispatched - 1
    /\ UNCHANGED << storeVars, warningColorEnabled, bridgeConfig, bridgeReliable,
                    light, h, last, newest, lastWriter, popup, original, worker, libVars >>

\* the runtime hands the oldest message to the listener (coordinator not followed)
Received ==
    /\ channel # << >>
    /\ channel' = Tail(channel)
    /\ dispatched' = dispatched - 1
    /\ UNCHANGED << storeVars, warningColorEnabled, bridgeConfig, bridgeReliable,
                    light, h, last, newest, lastWriter, popup, det, original, worker, libVars >>

(***************************************************************************)
(* Specification of the detector alone: the page, its timers and the       *)
(* runtime channel, which holds at most MaxDetectorMessages messages.      *)
(***************************************************************************)
NextDet ==
    \/ PageLoad
    \/ Recompute
    \/ DebouncedCheck
    \/ DebounceFires
    \/ JoinCall
    \/ LeaveCall
    \/ VisibilityChange
    \/ Unload
    \/ SendFails
    \/ Received

SpecDet == Init /\ [][NextDet]_vars

(***************************************************************************)
(* The detector with the page's clock: the MutationObserver's debounce.    *)
(* A timeout fires when it is due, before anything else happens on the     *)
(* page at that instant.                                                   *)
(***************************************************************************)
DEBOUNCE_DELAY_MS == 500

\* time that passes between two events of the page (ms)
Delays == {200, 500}

\* variant of debouncedCheck without clearTimeout
debouncedCheckKeepsTimers(pending, now) == pending \cup {now + DEBOUNCE_DELAY_MS}

\* debouncedCheck: clearTimeout(debounceTimer), then setTimeout(checkAndNotify, delay);
\* the pending timeouts after the call
debouncedCheck(pending, now) == {now + DEBOUNCE_DELAY_MS}

NoTimerDue == \A p \in timers.pending : p > timers.now

\* the observer reports a mutation of the document: debouncedCheck. The signal opens a
\* burst if it is the first or comes a debounce delay or more after the one before
MutationSignal ==
    /\ det.observer
    /\ NoTimerDue
    /\ LET t == timers
           opens == t.n = 0 \/ t.now - t.lastSignal >= DEBOUNCE_DELAY_MS
       IN /\ opens \/ t.n < MaxSignals
          /\ timers' = [t EXCEPT !.pending = debouncedCheck(t.pending, t.now),
                                 !.n = IF opens THEN 1 ELSE t.n + 1,
                                 !.first = IF opens THEN t.now ELSE t.first,
                                 !.lastSignal = t.now,
                                 !.runs = IF opens THEN 0 ELSE t.runs]
    /\ DetectorSteps([det EXCEPT !.debounceTimer = TRUE], channel)

\* a debounce timeout is due: checkAndNotify runs
DebounceTimerFires ==
    \E p \in timers.pending :
        /\ p <= timers.now
        /\ timers' = [timers EXCEPT !.pending = @ \ {p}, !.runs = @ + 1,
                                    !.ranAt = timers.now]
        /\ LET r == checkAndNotify([det EXCEPT !.debounceTimer =
                                                   (timers.pending \ {p} # {})],
                                   channel)
           IN DetectorSteps([r[1] EXCEPT !.deduped = Deduplicated(det),
                                       !.skipped = Skipped(det)], r[2])

\* time passes, up to the moment the next timeout is due
TimePasses ==
    /\ \E d \in Delays :
         /\ timers.now + d <= MaxTime
         /\ \A p \in timers.pending : timers.now + d <= p
         /\ timers' = [timers EXCEPT !.now = @ + d]
    /\ UNCHANGED << storeVars, warningColorEnabled, bridgeConfig, bridgeReliable, light,
                    h, last, newest, lastWriter, popup, det, channel, dispatched,
                    original, worker, client, conv, storage, got, test >>

NextDebounce ==
    \/ PageLoad
    \/ JoinCall
    \/ LeaveCall
    \/ MutationSignal
    \/ DebounceTimerFires
    \/ TimePasses
    \/ Received

SpecDebounce == Init /\ [][NextDebounce]_vars

(***************************************************************************)
(* The detector with both of its timers: the interval set by initialize()  *)
(* and the debounce timeout, counted down as time passes.                   *)
(***************************************************************************)
CHECK_INTERVAL_MS == 5000

\* time that passes in one step of the page's clock (ms)
Ticks == {250}

\* variant of initialize without the backup interval
intervalNeverSet == None

\* setInterval(checkAndNotify, CHECK_INTERVAL_MS): the time until the interval fires
intervalSet == Some(CHECK_INTERVAL_MS)

\* a timer (None: not armed, Some(ms): fires in ms) is due, can let d ms pass, and
\* what it is after d ms
Due(t) == IF t = None THEN FALSE ELSE t[1] = 0
CanPass(t, d) == IF t = None THEN TRUE ELSE d <= t[1]
After(t, d) == IF t = None THEN None ELSE Some(t[1] - d)

\* a Meet page is opened: initialize(), which also starts the interval
PageLoadClock ==
    /\ ~det.loaded
    /\ timers' = [timers EXCEPT !.interval = intervalSet]
    /\ \E v \in BOOLEAN, c \in BOOLEAN :
         LET d == [ClosedDetector EXCEPT !.loaded = TRUE, !.visible = v, !.callEnd = c]
             r == checkAndNotify(d, channel)
         IN DetectorSteps([r[1] EXCEPT !.listening = TRUE, !.observer = TRUE,
                                       !.intervalId = TRUE], r[2])

\* the observer reports a mutation: debouncedCheck clears the timeout and sets it anew
ObserverSignal ==
    /\ det.observer
    /\ timers' = [timers EXCEPT !.debounce = Some(DEBOUNCE_DELAY_MS)]
    /\ DetectorSteps([det EXCEPT !.debounceTimer = TRUE], channel)

\* the interval is due: checkAndNotify, and the interval starts over
IntervalFires ==
    /\ det.intervalId
    /\ Due(timers.interval)
    /\ timers' = [timers EXCEPT !.interval = intervalSet]
    /\ LET r == checkAndNotify(det, channel)
       IN DetectorSteps([r[1] EXCEPT !.deduped = Deduplicated(det),
                                     !.skipped = Skipped(det)], r[2])

\* the debounce timeout is due: checkAndNotify
DebounceTimeoutFires ==
    /\ det.debounceTimer
    /\ Due(timers.debounce)
    /\ timers' = [timers EXCEPT !.debounce = None]
    /\ LET r == checkAndNotify([det EXCEPT !.debounceTimer = FALSE], channel)
       IN DetectorSteps([r[1] EXCEPT !.deduped = Deduplicated(det),
                                     !.skipped = Skipped(det)], r[2])

\* time passes, up to the moment the next timer is due
Tick ==
    /\ \E d \in Ticks :
         /\ CanPass(timers.interval, d) /\ CanPass(timers.debounce, d)
         /\ timers' = [timers EXCEPT !.interval = After(@, d), !.debounce = After(@, d)]
    /\ UNCHANGED << storeVars, warningColorEnabled, bridgeConfig, bridgeReliable, light,
                    h, last, newest, lastWriter, popup, det, channel, dispatched,
                    original, worker, client, conv, storage, got, test >>

\* the user switches tabs
VisibilityChangeClock ==
    /\ det.loaded
    /\ LET d == [det EXCEPT !.visible = ~det.visible, !.afterSnapshot = FALSE,
                            !.deduped = FALSE, !.skipped = FALSE]
           r == IF det.listening THEN handleVisibilityChange(d, channel)
                ELSE << d, channel >>
       IN DetectorSteps(r[1], r[2])
    /\ UNCHANGED timers

\* the runtime rejects the oldest message: handleExtensionError, whose cleanup() clears
\* both timers
SendFailsClock ==
    /\ channel # << >>
    /\ \E receiverGone \in BOOLEAN :
         /\ det' = IF det.loaded THEN handleExtensionError(det, receiverGone) ELSE det
         /\ timers' = IF det.loaded /\ receiverGone
                      THEN [timers EXCEPT !.interval = None, !.debounce = None]
                      ELSE timers
    /\ channel' = Tail(channel)
    /\ dispatched' = dispatched - 1
    /\ UNCHANGED << storeVars, warningColorEnabled, bridgeConfig, bridgeReliable,
                    light, h, last, newest, lastWriter, popup, original, worker,
                    client, conv, storage, got, test >>

NextInterval ==
    \/ PageLoadClock
    \/ JoinCall
    \/ LeaveCall
    \/ VisibilityChangeClock
    \/ ObserverSignal
    \/ IntervalFires
    \/ DebounceTimeoutFires
    \/ Tick
    \/ SendFailsClock
    \/ Received

\* the page's clock advances, due timers fire, and the runtime settles every send
SpecInterval ==
    /\ Init /\ [][NextInterval]_vars
    /\ WF_vars(Tick) /\ WF_vars(IntervalFires) /\ WF_vars(DebounceTimeoutFires)
    /\ WF_vars(Received \/ SendFailsClock)

(***************************************************************************)
(* Device client: HueClient.getLightState / setLightState / getLights over *)
(* fetchWithRetry, and the bridge's answers.                               *)
(***************************************************************************)
MAX_RETRIES == 3
BASE_DELAY_MS == 1000

RECURSIVE Pow2(_)
Pow2(k) == IF k = 0 THEN 1 ELSE 2 * Pow2(k - 1)

\* variant of the backoff that waits the same delay every time
backoffDelayConstant(attempt) == BASE_DELAY_MS

\* fetchWithRetry: the delay waited after failed attempt number attempt (from 0)
backoffDelay(attempt) == BASE_DELAY_MS * Pow2(attempt)

ClientOps == {"getLightState", "setLightState", "getLights"}

\* the states the coordinator writes: a colour, or a snapshot
ClientArgs(op) ==
    IF op = "setLightState"
    THEN {Some(apiState(getMeetingColor)),
          Some([on |-> FALSE, hue |-> 30000, sat |-> 50, bri |-> 1])}
    ELSE {None}

\* the bridge's answers. A JSON object has an error member or not and a state member
\* or not; a JSON array lists success and error items; or the body is not JSON
ObjectBody(error, state) ==
    [type |-> "object", error |-> error, state |-> state, items |-> << >>]
ArrayBody(items) ==
    [type |-> "array", error |-> FALSE, state |-> None, items |-> items]
Unparsable == [type |-> "unparsable", error |-> FALSE, state |-> None, items |-> << >>]

\* the light resource the bridge reports: the lamp's state among other members
Reported(l) ==
    [on |-> l.on, bri |-> l.bri, hue |-> l.hue, sat |-> l.sat, ct |-> 366,
     reachable |-> TRUE]

Results == {"success", "error"}

\* the answer of a bridge that carries the request out
GoodBody(op) ==
    IF op = "setLightState" THEN ArrayBody([i \in 1..4 |-> "success"])
    ELSE ObjectBody(FALSE, Some(Reported(light)))

Bodies(op) ==
    IF op = "setLightState"
    THEN {ArrayBody(items) : items \in [1..4 -> Results]} \cup {Unparsable}
    ELSE {ObjectBody(FALSE, Some(Reported(light))), ObjectBody(FALSE, None),
          ObjectBody(TRUE, None), ObjectBody(TRUE, Some(Reported(light))),
          ArrayBody(<< "error" >>), Unparsable}

\* the lamp after the bridge answered items, one for each of on, bri, hue and sat, to
\* a request for state s
Updated(l, s, items) ==
    [on |-> IF items[1] = "success" THEN s.on ELSE l.on,
     bri |-> IF items[2] = "success" THEN s.bri ELSE l.bri,
     hue |-> IF items[3] = "success" THEN s.hue ELSE l.hue,
     sat |-> IF items[4] = "success" THEN s.sat ELSE l.sat]

\* what a method returns without a usable answer
Null(op) == IF op = "setLightState" THEN "false" ELSE "null"

\* variant of getLightState that does not look at the answer's error member
getLightStateIgnoresError(body) ==
    IF body.state = None THEN << "null", None >>
    ELSE << "state", Some([on |-> body.state[1].on, bri |-> body.state[1].bri,
                           hue |-> body.state[1].hue, sat |-> body.state[1].sat]) >>

\* getLightState on the parsed answer: result and value
getLightStateResult(body) ==
    IF body.error \/ body.state = None THEN << "null", None >>
    ELSE << "state", Some([on |-> body.state[1].on, bri |-> body.state[1].bri,
                           hue |-> body.state[1].hue, sat |-> body.state[1].sat]) >>

\* setLightState on the parsed answer: Array.isArray(result) && result[0]?.error
setLightStateResult(body) ==
    IF body.type = "array" /\ Len(body.items) > 0 /\ body.items[1] = "error"
    THEN << "false", None >> ELSE << "true", None >>

\* getLights on the parsed answer: data.error
getLightsResult(body) ==
    IF body.error THEN << "null", None >> ELSE << "data", None >>

clientFrame == << storeVars, warningColorEnabled, bridgeConfig, bridgeReliable,
                  h, last, newest, lastWriter, popup, det, channel, dispatched,
                  original, worker, timers, conv, storage, got, test >>

\* a method of the client is called; it returns at once unless the client is
\* configured and, for one light, a light id is given
ClientCall ==
    /\ client.pc \in {"idle", "returned"}
    /\ \E op \in ClientOps : \E arg \in ClientArgs(op) :
         client' =
            IF ~isConfigured(bridgeConfig.bridgeIp, bridgeConfig.username)
                  \/ (op # "getLights" /\ bridgeConfig.lightId = "")
            THEN [IdleClient EXCEPT !.pc = "returned", !.op = op, !.arg = arg,
                                    !.result = Null(op)]
            ELSE [IdleClient EXCEPT !.pc = "fetch", !.op = op, !.arg = arg]
    /\ UNCHANGED << light, clientFrame >>

\* fetchWithRetry: await fetch(url, options). The request is rejected at network
\* level, or the bridge answers (and, for an update, changes the lamp)
ClientFetch ==
    /\ client.pc = "fetch"
    /\ \/ /\ ~bridgeReliable
          /\ client' =
                IF client.attempt < MAX_RETRIES - 1
                THEN [client EXCEPT !.requests = @ + 1, !.failures = @ + 1,
                                    !.pc = "wait"]
                ELSE [client EXCEPT !.requests = @ + 1, !.failures = @ + 1,
                                    !.attempt = @ + 1, !.pc = "returned",
                                    !.result = Null(client.op)]
          /\ UNCHANGED light
       \/ \E body \in (IF bridgeReliable THEN {GoodBody(client.op)}
                       ELSE Bodies(client.op)) :
             /\ client' = [client EXCEPT !.requests = @ + 1, !.body = Some(body),
                                         !.pc = "json"]
             /\ light' = IF client.op = "setLightState" /\ body.type = "array"
                         THEN Updated(light, client.arg[1], body.items)
                         ELSE light
    /\ UNCHANGED clientFrame

\* fetchWithRetry: await the backoff delay, then the next attempt
ClientWait ==
    /\ client.pc = "wait"
    /\ client' = [client EXCEPT !.waits = Append(@, backoffDelay(client.attempt)),
                                !.attempt = @ + 1, !.pc = "fetch"]
    /\ UNCHANGED << light, clientFrame >>

\* await response.json(), then the method's checks; a body that is not JSON throws
\* into the method's catch
ClientJson ==
    /\ client.pc = "json"
    /\ LET body == client.body[1]
           r == IF body.type = "unparsable" THEN << Null(client.op), None >>
                ELSE IF client.op = "getLightState" THEN getLightStateResult(body)
                ELSE IF client.op = "setLightState" THEN setLightStateResult(body)
                ELSE getLightsResult(body)
       IN client' = [client EXCEPT !.pc = "returned", !.result = r[1], !.value = r[2]]
    /\ UNCHANGED << light, clientFrame >>

NextClient ==
    \/ ClientCall
    \/ ClientFetch
    \/ ClientWait
    \/ ClientJson

SpecClient == Init /\ [][NextClient]_vars

(***************************************************************************)
(* Colour conversion applied to the colours the settings page can store.   *)
(***************************************************************************)
Hues == 0..360
Percents == 0..100

convFrame == << storeVars, warningColorEnabled, bridgeConfig, bridgeReliable, light,
                h, last, newest, lastWriter, popup, det, channel, dispatched,
                original, worker, timers, client, storage, got, test >>

\* setLightTo...Color converts the colour's hue
ConvertHue ==
    /\ \E hue \in Hues : conv' = [fn |-> "hueToApi", x |-> hue, y |-> hueToApi(hue)]
    /\ UNCHANGED convFrame

\* setLightTo...Color converts the colour's saturation or brightness
ConvertPercent ==
    /\ \E percent \in Percents :
         conv' = [fn |-> "percentToApi", x |-> percent, y |-> percentToApi(percent)]
    /\ UNCHANGED convFrame

NextConv ==
    \/ ConvertHue
    \/ ConvertPercent

SpecConv == Init /\ [][NextConv]_vars

(***************************************************************************)
(* Store module: the getters' defaults over chrome.storage.                *)
(***************************************************************************)
\* x ?? default on a stored key
Coalesce(v, default) == IF v = None THEN default ELSE v[1]

\* variant of getMeetingColor that uses || where the source uses ??
getMeetingColorFalsy(st) ==
    [hue |-> IF st.meetingHue = None \/ st.meetingHue[1] = 0
             THEN DEFAULT_MEETING_COLOR.hue ELSE st.meetingHue[1],
     sat |-> IF st.meetingSat = None \/ st.meetingSat[1] = 0
             THEN DEFAULT_MEETING_COLOR.sat ELSE st.meetingSat[1],
     bri |-> IF st.meetingBri = None \/ st.meetingBri[1] = 0
             THEN DEFAULT_MEETING_COLOR.bri ELSE st.meetingBri[1]]

\* getMeetingColor over the storage st
getMeetingColorFrom(st) ==
    [hue |-> Coalesce(st.meetingHue, DEFAULT_MEETING_COLOR.hue),
     sat |-> Coalesce(st.meetingSat, DEFAULT_MEETING_COLOR.sat),
     bri |-> Coalesce(st.meetingBri, DEFAULT_MEETING_COLOR.bri)]

\* getWarningColor over the storage st
getWarningColorFrom(st) ==
    [hue |-> Coalesce(st.warningColorHue, DEFAULT_MEETING_COLOR.hue),
     sat |-> Coalesce(st.warningColorSat, DEFAULT_MEETING_COLOR.sat),
     bri |-> Coalesce(st.warningColorBri, DEFAULT_MEETING_COLOR.bri)]

getWarningColorEnabled(st) == Coalesce(st.warningColorEnabled, FALSE)
getMeetingStatus(st) == Coalesce(st.currentMeetingStatus, FALSE)
getWarningStatus(st) == Coalesce(st.currentWarningStatus, FALSE)

\* getPreviousLightState: result[key] || null
getPreviousLightState(st) == st.previousLightState

Getters ==
    {"getMeetingColor", "getWarningColor", "getWarningColorEnabled",
     "getMeetingStatus", "getWarningStatus", "getPreviousLightState"}

\* what getter fn returns over the storage st
Get(fn, st) ==
    IF fn = "getMeetingColor" THEN [NoRead EXCEPT !.fn = fn, !.color = getMeetingColorFrom(st)]
    ELSE IF fn = "getWarningColor"
    THEN [NoRead EXCEPT !.fn = fn, !.color = getWarningColorFrom(st)]
    ELSE IF fn = "getWarningColorEnabled"
    THEN [NoRead EXCEPT !.fn = fn, !.flag = getWarningColorEnabled(st)]
    ELSE IF fn = "getMeetingStatus"
    THEN [NoRead EXCEPT !.fn = fn, !.flag = getMeetingStatus(st)]
    ELSE IF fn = "getWarningStatus"
    THEN [NoRead EXCEPT !.fn = fn, !.flag = getWarningStatus(st)]
    ELSE [NoRead EXCEPT !.fn = fn, !.state = getPreviousLightState(st)]

\* colours the settings page stores
Colors == { [hue |-> 0, sat |-> 0, bri |-> 0], [hue |-> 240, sat |-> 50, bri |-> 80] }

storeFrame == << storeVars, warningColorEnabled, bridgeConfig, bridgeReliable, light,
                 h, last, newest, lastWriter, popup, det, channel, dispatched,
                 original, worker, timers, client, conv, test >>

\* saveMeetingColor(color)
StoreSaveMeetingColor ==
    /\ \E color \in Colors :
         storage' = [storage EXCEPT !.meetingHue = Some(color.hue),
                                    !.meetingSat = Some(color.sat),
                                    !.meetingBri = Some(color.bri)]
    /\ UNCHANGED << got, storeFrame >>

\* saveWarningColor(color)
StoreSaveWarningColor ==
    /\ \E color \in Colors :
         storage' = [storage EXCEPT !.warningColorHue = Some(color.hue),
                                    !.warningColorSat = Some(color.sat),
                                    !.warningColorBri = Some(color.bri)]
    /\ UNCHANGED << got, storeFrame >>

\* saveWarningColorEnabled(enabled), setMeetingStatus(inMeeting),
\* setWarningStatus(inWarning)
StoreSetFlag ==
    /\ \E key \in {"warningColorEnabled", "currentMeetingStatus", "currentWarningStatus"},
          flag \in BOOLEAN :
         storage' = [storage EXCEPT ![key] = Some(flag)]
    /\ UNCHANGED << got, storeFrame >>

\* savePreviousLightState(state), with the state read from the lamp
StoreSavePreviousLightState ==
    /\ storage' = [storage EXCEPT !.previousLightState = Some(light)]
    /\ UNCHANGED << got, storeFrame >>

\* clearPreviousLightState()
StoreClearPreviousLightState ==
    /\ storage' = [storage EXCEPT !.previousLightState = None]
    /\ UNCHANGED << got, storeFrame >>

\* what getBridgeConfig returns when none of the bridge's keys is stored
NoBridgeConfig == [bridgeIp |-> << >>, username |-> "", lightId |-> ""]

\* variant of clearBridgeConfig that leaves the session keys
clearBridgeConfigLocalOnly(st) == st

\* clearBridgeConfig: the storage after chrome.storage.session.remove of its three keys
clearBridgeConfig(st) ==
    [st EXCEPT !.previousLightState = None,
               !.currentMeetingStatus = None,
               !.currentWarningStatus = None]

\* clearBridgeConfig(): the bridge's keys are removed from the local store, then the
\* session keys
StoreClearBridgeConfig ==
    /\ bridgeConfig' = NoBridgeConfig
    /\ storage' = clearBridgeConfig(storage)
    /\ UNCHANGED << got, storeVars, warningColorEnabled, bridgeReliable, light,
                    h, last, newest, lastWriter, popup, det, channel, dispatched,
                    original, worker, timers, client, conv, test >>

\* one of the getters is called
StoreGet ==
    /\ \E fn \in Getters : got' = Get(fn, storage)
    /\ UNCHANGED << storage, storeFrame >>

NextStore ==
    \/ StoreSaveMeetingColor
    \/ StoreSaveWarningColor
    \/ StoreSetFlag
    \/ StoreSavePreviousLightState
    \/ StoreClearPreviousLightState
    \/ StoreClearBridgeConfig
    \/ StoreGet

SpecStore == Init /\ [][NextStore]_vars

(***************************************************************************)
(* Settings page: handleTestColor, next to the coordinator's handlers.     *)
(***************************************************************************)
TEST_RESTORE_DELAY_MS == 2000

\* variant of the timeout's callback that restores the coordinator's snapshot
testRestoreSnapshot(t, snapshot) ==
    IF snapshot = None THEN t.savedState[1] ELSE snapshot[1]

\* the state the timeout's callback writes: savedState
testRestoreState(t, snapshot) == t.savedState[1]

\* the colour picked on the settings page (config.meetingHue, meetingSat, meetingBri)
TestColors == { [hue |-> 240, sat |-> 50, bri |-> 80] }

testFrame == << storeVars, warningColorEnabled, bridgeConfig, bridgeReliable,
                h, last, newest, popup, det, channel, dispatched,
                original, worker, timers, client, conv, storage, got >>

\* handleTestColor is called with the colour picked on the page, while no Status
\* handler is running: it returns at once unless the page has a client and a light id
TestStart ==
    /\ test.pc \in {"idle", "unconfigured", "aborted", "failed", "done"}
    /\ test.runs < MaxTests
    /\ NoneRunning
    /\ \E c \in TestColors :
         test' = IF getHueClient(bridgeConfig)
                 THEN [IdleTest EXCEPT !.pc = "getLightState", !.color = apiState(c),
                                       !.runs = test.runs + 1]
                 ELSE [IdleTest EXCEPT !.pc = "unconfigured", !.runs = test.runs + 1]
    /\ UNCHANGED << light, lastWriter, testFrame >>

\* savedState = await hueClient.getLightState(lightId); null ends the test
TestGetLightState ==
    /\ test.pc = "getLightState"
    /\ \E o \in DeviceOutcomes :
         test' = IF o = "ok"
                 THEN [test EXCEPT !.pc = "setLightState", !.savedState = Some(light)]
                 ELSE [test EXCEPT !.pc = "aborted"]
    /\ UNCHANGED << light, lastWriter, testFrame >>

\* success = await hueClient.setLightState(lightId, test colour); on success the
\* timeout is set
TestSetLightState ==
    /\ test.pc = "setLightState"
    /\ \E o \in DeviceOutcomes :
         /\ test' = [test EXCEPT !.pc = IF o = "ok" THEN "timeout" ELSE "failed",
                                 !.writes = @ + 1,
                                 !.applied = o,
                                 !.delay = IF o = "ok" THEN TEST_RESTORE_DELAY_MS ELSE 0]
         /\ light' = IF o = "ok" THEN test.color ELSE light
         /\ lastWriter' = IF o = "ok" THEN 0 ELSE lastWriter
    /\ UNCHANGED testFrame

\* the timeout fires: await hueClient.setLightState(lightId, savedState)
TestRestore ==
    /\ test.pc = "timeout"
    /\ \E o \in DeviceOutcomes :
         /\ test' = [test EXCEPT !.pc = "done", !.writes = @ + 1, !.restored = o]
         /\ light' = IF o = "ok" THEN testRestoreState(test, previousLightState)
                     ELSE light
         /\ lastWriter' = IF o = "ok" THEN 0 ELSE lastWriter
    /\ UNCHANGED testFrame

\* a Status message arrives before the test or during the delay of its timeout (not in
\* the middle of its first two device calls; the coordinator is not followed beyond
\* the end of the last test)
ReceiveStatusBesideTest ==
    /\ \/ test.pc = "timeout"
       \/ test.pc \notin {"getLightState", "setLightState"} /\ test.runs < MaxTests
    /\ ReceiveStatus

NextSettings ==
    \/ ReceiveStatusBesideTest
    \/ \E s \in Slots : HandlerGetStatus(s)
    \/ \E s \in Slots : HandlerGetWarningStatus(s)
    \/ \E s \in Slots : HandlerSetMeetingStatus(s)
    \/ \E s \in Slots : HandlerSetWarningStatus(s)
    \/ \E s \in Slots : SaveGetHueClient(s)
    \/ \E s \in Slots : SaveGetLightState(s)
    \/ \E s \in Slots : SaveStore(s)
    \/ \E s \in Slots : ColorGetHueClient(s)
    \/ \E s \in Slots : ColorGetColor(s)
    \/ \E s \in Slots : ColorSetLightState(s)
    \/ \E s \in Slots : RestoreGetHueClient(s)
    \/ \E s \in Slots : RestoreGetPrevious(s)
    \/ \E s \in Slots : RestoreSetLightState(s)
    \/ \E s \in Slots : RestoreClear(s)
    \/ TestStart
    \/ TestGetLightState
    \/ TestSetLightState
    \/ TestRestore

SpecSettings == Init /\ [][NextSettings]_vars

(***************************************************************************)
(* Specification of the whole system: the detector drives the coordinator, *)
(* whose handlers may overlap.                                             *)
(***************************************************************************)
NextSys ==
    \/ PageLoad
    \/ Recompute
    \/ DebouncedCheck
    \/ DebounceFires
    \/ JoinCall
    \/ LeaveCall
    \/ VisibilityChange
    \/ Unload
    \/ Deliver
    \/ \E s \in Slots : HandlerGetStatus(s)
    \/ \E s \in Slots : HandlerGetWarningStatus(s)
    \/ \E s \in Slots : HandlerSetMeetingStatus(s)
    \/ \E s \in Slots : HandlerSetWarningStatus(s)
    \/ \E s \in Slots : SaveGetHueClient(s)
    \/ \E s \in Slots : SaveGetLightState(s)
    \/ \E s \in Slots : SaveStore(s)
    \/ \E s \in Slots : ColorGetHueClient(s)
    \/ \E s \in Slots : ColorGetColor(s)
    \/ \E s \in Slots : ColorSetLightState(s)
    \/ \E s \in Slots : RestoreGetHueClient(s)
    \/ \E s \in Slots : RestoreGetPrevious(s)
    \/ \E s \in Slots : RestoreSetLightState(s)
    \/ \E s \in Slots : RestoreClear(s)
    \/ SaveWarningColorEnabled

SpecSys == Init /\ [][NextSys]_vars

(***************************************************************************)
(* Properties of the coordinator with handlers run one after another.      *)
(***************************************************************************)
\* the handler of the message that arrived last
cur == h[newest]

NoDeviceCall(r) == r.read = "none" /\ r.write = "none"

\* Warning{NoStatus|null} handled from canonical NO_STATUS without snapshot, then
\* InMeeting{Warning} handled, both to completion
C1_Scenario ==
    /\ cur.pc = "done" /\ cur.status = IN_MEETING /\ cur.previousStatus = WARNING
    /\ last.pc = "done" /\ last.status = WARNING /\ last.save /\ last.fresh

\* C1 as claimed: in the scenario the snapshot is written exactly once, by the first
\* handler, and the Warning->InMeeting handler neither reads the light nor writes the
\* snapshot.
C1_SnapshotExactlyOnce ==
    C1_Scenario => last.snapWrote /\ ~cur.snapWrote /\ cur.read = "none"

\* C1 (amended): in the scenario the snapshot is written at most once: by the first
\* handler exactly when its light-state read succeeds, never otherwise; the
\* Warning->InMeeting handler neither reads the light nor writes the snapshot.
C1_SnapshotOnceIfReadOk ==
    C1_Scenario =>
        /\ last.snapWrote <=> last.read = "ok"
        /\ ~cur.snapWrote
        /\ cur.read = "none"

C1_Witness == C1_Scenario /\ last.snapWrote /\ cur.write = "ok"

\* a NoStatus message accepted from InMeeting or Warning while snapshot S is stored
C2_Case ==
    /\ cur.pc = "done" /\ cur.status = NO_STATUS /\ cur.accepted
    /\ cur.startStatus \in {IN_MEETING, WARNING}
    /\ cur.startSnap # None

C3_Case ==
    /\ cur.pc = "done" /\ cur.status \in {IN_MEETING, WARNING} /\ cur.accepted
    /\ savePreviousLightStateFlag(cur.previousStatus)
    /\ cur.read = "fail"

\* C3 as claimed: after a failed light-state read the colour write for the new status
\* is still issued.
C3_ColorAfterFailedRead ==
    C3_Case => cur.write # "none" /\ cur.wstate = Some(ColorFor(cur.status))

\* C3 (amended): after a failed light-state read no colour write is issued and no
\* snapshot is written; the status flags are updated and the status is broadcast.
C3_NoColorAfterFailedRead ==
    C3_Case =>
        /\ cur.write = "none"
        /\ ~cur.snapWrote
        /\ previousLightState = cur.startSnap
        /\ cur.bcast
        /\ currentMeetingStatus = (cur.status = IN_MEETING)
        /\ currentWarningStatus = (cur.status = WARNING)

C3_Witness == C3_Case /\ cur.status = WARNING /\ cur.bcast

\* C4 as claimed: a Warning message handled from canonical NO_STATUS is acted on only
\* if warning colour is enabled; with the flag false there is no flag change, no
\* broadcast and no device call.
C4_WarningGatedByEnabled ==
    (/\ cur.pc = "done" /\ cur.status = WARNING /\ cur.startStatus = NO_STATUS
     /\ ~cur.startEnabled /\ ~warningColorEnabled)
    => /\ ~cur.accepted
       /\ ~cur.bcast
       /\ NoDeviceCall(cur)
       /\ ~currentWarningStatus

\* a duplicate: Status{X, previousStatus: X} handled while GetStatus answers X
C5_Case ==
    /\ cur.pc = "done"
    /\ cur.previousStatus = cur.status
    /\ cur.startStatus = cur.status

C5_NoOp ==
    /\ ~cur.accepted
    /\ ~cur.bcast
    /\ NoDeviceCall(cur)
    /\ ~cur.snapWrote
    /\ previousLightState = cur.startSnap
    /\ StatusOf(currentMeetingStatus, cur.startEnabled, currentWarningStatus)
           = cur.startStatus
    /\ currentWarningStatus = cur.startWarning

\* C5 as claimed: the duplicate is a no-op for every X and every value of the
\* warning-enabled flag and of the persisted warning flag.
C5_DuplicateIsNoOp == C5_Case => C5_NoOp

\* C5 (amended): the duplicate is a no-op for X = InMeeting and X = Warning, and for
\* X = NoStatus when the persisted warning flag is false; when GetStatus answers
\* NoStatus although the warning flag is true (warning colour disabled), the NoStatus
\* message is accepted: both flags are cleared and NoStatus is broadcast.
C5_DuplicateIsNoOpUnlessStaleWarning ==
    C5_Case =>
        IF cur.status = NO_STATUS /\ cur.startWarning
        THEN cur.accepted /\ cur.bcast /\ ~currentMeetingStatus /\ ~currentWarningStatus
        ELSE C5_NoOp

C5_Witness ==
    /\ C5_Case /\ cur.status = WARNING /\ ~cur.accepted
    /\ previousLightState # None

\* C6 as claimed: a stored snapshot is not overwritten by a message handled while
\* canonical status is Warning or InMeeting, whatever its previousStatus.
C6_SnapshotNotOverwritten ==
    \A s \in Slots :
        (h[s].snapWrote /\ h[s].startSnap # None /\ h[s].startStatus # NO_STATUS)
            => previousLightState = h[s].startSnap

\* C10: the answer to GET_STATUS is InMeeting when the meeting flag is true, otherwise
\* Warning exactly when warning colour is enabled (as read by the query) and the
\* warning flag is true, otherwise NoStatus.
C10_GetStatusAnswer ==
    [][(PopupBusy /\ popup'.pc = "open") =>
          popup'.answer =
              StatusOf(currentMeetingStatus,
                       IF popup.pc = "getE" THEN warningColorEnabled ELSE popup.enabled,
                       currentWarningStatus)]_vars

\* the query answered NoStatus although the warning flag is true: feature disabled
C10_Witness ==
    /\ popup.pc = "open" /\ popup.answer = NO_STATUS
    /\ ~currentMeetingStatus /\ currentWarningStatus /\ ~warningColorEnabled
    /\ cur.pc = "done" /\ cur.status = WARNING /\ ~cur.bcast

\* C11: a NO_STATUS message accepted while no snapshot is stored issues no device
\* request and leaves the lamp alone, yet both flags are cleared and NO_STATUS is
\* broadcast.
C11_Case ==
    /\ cur.pc = "done" /\ cur.status = NO_STATUS /\ cur.accepted
    /\ cur.startSnap = None

C11_NoSnapshotNoRestore ==
    C11_Case =>
        /\ NoDeviceCall(cur) /\ lastWriter = 0
        /\ Some(light) = cur.startLight
        /\ previousLightState = None
        /\ ~currentMeetingStatus /\ ~currentWarningStatus
        /\ cur.sent = << NO_STATUS >>

\* leaving a call whose snapshot could not be taken, with a configured bridge
C11_Witness ==
    /\ C11_Case /\ cur.startStatus = IN_MEETING /\ getHueClient(bridgeConfig)
    /\ last.status = IN_MEETING /\ last.read = "fail"

\* the three messages of the scenario, each handled to completion with a configured,
\* reachable bridge
C12_Bridge == getHueClient(bridgeConfig) /\ bridgeReliable

C12_First ==
    /\ cur.pc = "done" /\ cur.status = WARNING /\ cur.previousStatus = NULL
    /\ cur.startStatus = NO_STATUS /\ ~cur.startWarning /\ cur.startSnap = None
    /\ cur.startEnabled

C12_Second ==
    /\ cur.pc = "done" /\ cur.status = IN_MEETING /\ cur.previousStatus = WARNING
    /\ cur.startStatus = WARNING /\ cur.startSnap # None
    /\ last.status = WARNING /\ last.fresh /\ last.snapWrote

C12_Third ==
    /\ cur.pc = "done" /\ cur.status = NO_STATUS /\ cur.previousStatus = IN_MEETING
    /\ cur.startStatus = IN_MEETING /\ ~cur.startWarning /\ cur.startSnap # None
    /\ last.status = IN_MEETING /\ last.save = FALSE

\* C12: with warning enabled and a reachable bridge, from NO_STATUS with lamp state L:
\* {WARNING, null} ends with the warning flag set, snapshot L and the lamp at the
\* warning colour; {IN_MEETING, WARNING} then ends with the meeting flag set, the
\* snapshot unchanged and the lamp at the meeting colour; {NO_STATUS, IN_MEETING} then
\* ends with both flags false, the lamp at the snapshot and no snapshot stored.
C12_EndToEnd ==
    C12_Bridge =>
        /\ C12_First =>
              /\ ~currentMeetingStatus /\ currentWarningStatus
              /\ previousLightState = cur.startLight
              /\ light = apiState(getWarningColor)
        /\ C12_Second =>
              /\ currentMeetingStatus /\ ~currentWarningStatus
              /\ previousLightState = cur.startSnap
              /\ light = apiState(getMeetingColor)
        /\ C12_Third =>
              /\ ~currentMeetingStatus /\ ~currentWarningStatus
              /\ Some(light) = cur.startSnap
              /\ previousLightState = None

\* the end of the scenario: the lamp is back in the state it had before the extension
\* touched it
C12_Witness ==
    /\ C12_Bridge /\ C12_Third /\ light = original /\ cur.startLight = Some(apiState(getMeetingColor))
    /\ warningColorEnabled

\* C13: when a handler that accepted its message has finished, the flags are those of
\* the message's status and the broadcast was issued, whatever the device calls did
\* (failed read, failed write, bridge not configured).
C13_TransitionCompletesDespiteDevice ==
    (cur.pc = "done" /\ cur.accepted) =>
        /\ currentMeetingStatus = (cur.status = IN_MEETING)
        /\ currentWarningStatus = (cur.status = WARNING)
        /\ cur.bcast

\* joining a call while the lamp cannot be read
C13_Witness ==
    /\ cur.pc = "done" /\ cur.accepted /\ cur.status = IN_MEETING
    /\ cur.read = "fail" /\ currentMeetingStatus

\* what a handler that accepted its message goes on to do after the broadcast, with a
\* configured and reachable bridge
C14_RestRan(r) ==
    IF r.status = NO_STATUS
    THEN r.startSnap # None => (r.write = "ok" /\ r.cleared)
    ELSE /\ r.save => r.snapWrote
         /\ r.write = "ok"

\* C14: a finished handler issued exactly one broadcast, carrying its message's status,
\* if it accepted the message and none if it ignored it; and whether or not a popup was
\* listening, the snapshot or restore and the colour push ran.
C14_OneBroadcastPerTransition ==
    (cur.pc = "done") =>
        /\ cur.sent = IF cur.accepted THEN << cur.status >> ELSE << >>
        /\ (cur.accepted /\ C12_Bridge) => C14_RestRan(cur)

\* a call was joined while no popup was open: snapshot and colour push still ran
C14_Witness ==
    /\ cur.pc = "done" /\ cur.accepted /\ ~cur.heard /\ cur.status = IN_MEETING
    /\ cur.snapWrote /\ cur.write = "ok" /\ cur.sent = << IN_MEETING >>

\* the stored bridge configuration lacks the address, the credential or the light id,
\* or its address is not four groups of 0..255
C15_Unconfigured ==
    \/ bridgeConfig.bridgeIp = << >>
    \/ ~isValidIp(bridgeConfig.bridgeIp)
    \/ bridgeConfig.username = ""
    \/ bridgeConfig.lightId = ""

\* C15: with such a configuration no handler ever issues a device request: no read, no
\* write, no snapshot stored, the lamp untouched; the handlers still run to their end.
C15_NoRequestWhenUnconfigured ==
    C15_Unconfigured =>
        /\ \A s \in Slots : NoDeviceCall(h[s]) /\ ~h[s].snapWrote
        /\ lastWriter = 0
        /\ light = original
        /\ previousLightState = None

\* a call was joined and left with only the light id missing: both handlers finished
C15_Witness ==
    /\ bridgeConfig.lightId = "" /\ bridgeConfig.username # ""
    /\ isValidIp(bridgeConfig.bridgeIp)
    /\ cur.pc = "done" /\ cur.accepted /\ cur.status = NO_STATUS
    /\ last.pc = "done" /\ last.status = IN_MEETING /\ last.save

\* the service worker's start-up is in progress, or this step begins it
StartupStep == worker.pc # "up" \/ worker'.pc # "up"

C7_LastWriteIsNewest ==
    (NoneRunning /\ cur.pc = "done" /\ cur.overlapped /\ cur.accepted /\ lastWriter # 0
        /\ getHueClient(bridgeConfig) /\ bridgeReliable)
        => lastWriter = newest

\* C8 as claimed: once the detector has sent its unload message and the coordinator
\* is at rest (nothing in the channel, no handler running), both flags are false.
C8_ConvergesToNoStatus ==
    (~det.loaded /\ det.unloadSent /\ AtRest)
        => (~currentMeetingStatus /\ ~currentWarningStatus)

\* the detector has nothing more to report until the user acts again
DetectorSettled ==
    \/ ~det.loaded
    \/ ~det.visible
    \/ det.lastKnownStatus = (IF det.callEnd THEN IN_MEETING ELSE WARNING)

\* C9 as claimed: with a configured, reachable bridge, after the user closed the tab, or
\* left the call while the tab stays visible, with the snapshot of the original state
\* stored, the lamp is back in its original state once every message is delivered and
\* handled (stated for the default setting, warning colour disabled).
C9_LightRestored ==
    (det.afterSnapshot /\ AtRest /\ DetectorSettled /\ ~warningColorEnabled
        /\ getHueClient(bridgeConfig) /\ bridgeReliable)
        => light = original

(***************************************************************************)
(* Properties of the detector.                                             *)
(***************************************************************************)
\* C17: a recompute (interval or debounce timer) on a visible page whose computed
\* status equals lastKnownStatus sends nothing and keeps lastKnownStatus; and after any
\* recompute a further recompute of the unchanged page sends nothing.
C17_RecomputeDeduplicates ==
    [][(Recompute \/ DebounceFires) =>
          /\ Deduplicated(det) =>
                (channel' = channel /\ det'.lastKnownStatus = det.lastKnownStatus)
          /\ checkAndNotify(det', channel') = << det', channel' >>]_vars

\* a deduplicated recompute has just run in a call, with nothing waiting to be sent
C17_Witness ==
    /\ det.deduped /\ det.lastKnownStatus = IN_MEETING /\ channel = << >>

\* the detector is live: not disabled, its visibility listener registered
LiveDetector(d) == d.loaded /\ d.isExtensionValid /\ d.listening

\* C18: when the document of a live detector becomes hidden while lastKnownStatus is
\* WARNING, exactly one message {NO_STATUS, previousStatus WARNING} is sent and
\* lastKnownStatus becomes NO_STATUS; hidden from any other lastKnownStatus, nothing is
\* sent and lastKnownStatus is unchanged.
C18_HiddenDemotesWarningOnly ==
    [][(VisibilityChange /\ LiveDetector(det) /\ det.visible) =>
          IF det.lastKnownStatus = WARNING
          THEN /\ channel' = Append(channel, [status |-> NO_STATUS,
                                              previousStatus |-> WARNING])
               /\ det'.lastKnownStatus = NO_STATUS
          ELSE /\ channel' = channel
               /\ det'.lastKnownStatus = det.lastKnownStatus]_vars

\* the page was hidden in WARNING: the demotion is the only message waiting
C18_Witness ==
    /\ det.loaded /\ ~det.visible /\ det.lastKnownStatus = NO_STATUS
    /\ channel = << [status |-> NO_STATUS, previousStatus |-> WARNING] >>

\* C19: the unload of a page with a live detector sends exactly one message
\* {NO_STATUS, previousStatus lastKnownStatus} if lastKnownStatus is WARNING or
\* IN_MEETING and nothing otherwise, and releases the observer and both timers; after
\* it the detector sends nothing more and never changes lastKnownStatus again.
C19_UnloadSendsOnceThenSilent ==
    [][/\ (Unload /\ LiveDetector(det)) =>
             /\ channel' = IF det.lastKnownStatus \in {WARNING, IN_MEETING}
                           THEN Append(channel, [status |-> NO_STATUS,
                                                 previousStatus |-> det.lastKnownStatus])
                           ELSE channel
             /\ ~det'.observer /\ ~det'.debounceTimer /\ ~det'.intervalId
             /\ ~det'.listening
       /\ (det.unloaded /\ det'.unloaded) =>
             /\ Len(channel') <= Len(channel)
             /\ det'.lastKnownStatus = det.lastKnownStatus]_vars

\* a page was unloaded during a call: its last message is the demotion from IN_MEETING
C19_Witness ==
    /\ det.unloaded /\ det.unloadSent /\ channel # << >>
    /\ channel[Len(channel)] = [status |-> NO_STATUS, previousStatus |-> IN_MEETING]

\* C20: once a send of the running page was rejected because the receiver is gone, the
\* observer is disconnected, both timers are cleared and the detector is disabled; from
\* then on it sends no message, whatever happens to the page (timer, visibility,
\* unload); the lost message is not sent again.
C20_DisabledAfterSendFailure ==
    [][/\ det'.sendFailed =>
             (~det'.observer /\ ~det'.debounceTimer /\ ~det'.intervalId
                /\ ~det'.listening /\ ~det'.isExtensionValid)
       /\ (det.sendFailed /\ det'.sendFailed) => Len(channel') <= Len(channel)]_vars

\* the disabled detector's page was hidden and then unloaded from WARNING: no message
C20_Witness ==
    /\ det.sendFailed /\ det.unloaded /\ ~det.visible /\ det.lastKnownStatus = WARNING
    /\ channel = << >>

(***************************************************************************)
(* Properties of the debounce.                                             *)
(***************************************************************************)
\* C21: a burst of N >= 1 mutation signals, each less than the debounce delay after the
\* one before, has exactly one timeout pending while it lasts, due one debounce delay
\* after its latest signal, and no recompute yet; once that timeout has fired the burst
\* has produced exactly one debounced recompute, run one debounce delay after its last
\* signal.
C21_OneDebouncedRecompute ==
    timers.n >= 1 =>
        IF timers.pending # {}
        THEN /\ timers.runs = 0
             /\ timers.pending = {timers.lastSignal + DEBOUNCE_DELAY_MS}
        ELSE /\ timers.runs = 1
             /\ timers.ranAt = timers.lastSignal + DEBOUNCE_DELAY_MS

\* three signals spread over time were answered by one recompute
C21_Witness ==
    /\ timers.n = 3 /\ timers.pending = {} /\ timers.runs = 1
    /\ timers.lastSignal > timers.first
    /\ timers.ranAt = timers.lastSignal + DEBOUNCE_DELAY_MS

(***************************************************************************)
(* Properties of the device client.                                        *)
(***************************************************************************)
\* C22: a call never issues more than 3 requests. When every attempt was rejected at
\* network level the call made exactly 3 attempts, waited 1000 ms after the first and
\* 2000 ms after the second and nothing after the third, and returned null
\* (getLightState, getLights) or false (setLightState). When an attempt was answered,
\* it was the last one: one request more than there were rejections, each rejection
\* followed by its backoff delay.
C22_RetryThreeTimesWithBackoff ==
    /\ client.requests <= 3
    /\ (client.pc = "returned" /\ client.requests > 0 /\ client.body = None) =>
          /\ client.requests = 3 /\ client.failures = 3
          /\ client.waits = << 1000, 2000 >>
          /\ client.result = (IF client.op = "setLightState" THEN "false" ELSE "null")
    /\ client.body # None =>
          /\ client.requests = client.failures + 1
          /\ client.waits = SubSeq(<< 1000, 2000 >>, 1, client.failures)

\* a light-state read gave up after three rejected attempts
C22_Witness ==
    /\ client.pc = "returned" /\ client.op = "getLightState" /\ client.body = None
    /\ client.requests = 3 /\ client.waits = << 1000, 2000 >> /\ client.result = "null"

\* the answer carries an error: an error member, or an error item in the array
ErrorPayload(body) ==
    \/ body.error
    \/ body.type = "array" /\ \E i \in 1..Len(body.items) : body.items[i] = "error"

\* C23 as claimed: when the first request of a call is answered with an error payload,
\* the call issued exactly one request, waited for no backoff and returned null (read)
\* or false (write).
C23_ErrorPayloadNotRetried ==
    (client.pc = "returned" /\ client.body # None /\ client.failures = 0
        /\ ErrorPayload(client.body[1]))
        => /\ client.requests = 1
           /\ client.waits = << >>
           /\ client.result = (IF client.op = "setLightState" THEN "false" ELSE "null")

\* C24 as claimed: setLightState returns false whenever the answer's array holds an
\* error item, at whatever position, and returns true only when the update succeeded,
\* the lamp then having the requested state.
C24_SetLightStateResult ==
    (client.pc = "returned" /\ client.op = "setLightState" /\ client.body # None
        /\ client.body[1].type = "array")
        => /\ ErrorPayload(client.body[1]) => client.result = "false"
           /\ client.result = "true" => light = client.arg[1]

\* the answer getLightState accepts: a JSON object without error member, with a state
UsableLightAnswer ==
    /\ client.body # None
    /\ client.body[1].type = "object"
    /\ ~client.body[1].error
    /\ client.body[1].state # None

\* C25: getLightState always returns: null after a network failure of all attempts, an
\* answer that is not JSON, an error payload or an answer without state (and when the
\* client is not configured); otherwise exactly the on, bri, hue and sat members of the
\* reported state, which are the lamp's.
C25_GetLightStateResult ==
    (client.pc = "returned" /\ client.op = "getLightState") =>
        IF UsableLightAnswer
        THEN /\ client.result = "state"
             /\ DOMAIN client.value[1] = {"on", "bri", "hue", "sat"}
             /\ \A a \in DOMAIN client.value[1] :
                    client.value[1][a] = client.body[1].state[1][a]
             /\ client.value[1] = light
        ELSE client.result = "null" /\ client.value = None

\* the bridge rejected the read with an error member although it reported a state
C25_Witness ==
    /\ client.pc = "returned" /\ client.op = "getLightState" /\ client.body # None
    /\ client.body[1].error /\ client.body[1].state # None
    /\ client.result = "null"

(***************************************************************************)
(* Properties of the colour conversion and of the store's getters.         *)
(***************************************************************************)
\* C26: for every hue in 0..360, hueToApi(hue) is the integer nearest to
\* hue / 360 * 65535 (a half rounds up), lies in 0..65535, is 0 at 0 and 65535 at 360, and
\* is not below the result for any smaller hue; for every percent in 0..100,
\* percentToApi(percent) is the integer nearest to percent / 100 * 254, lies in 0..254, is
\* 0 at 0 and 254 at 100, and is not below the result for any smaller percent.
C26_ConversionRoundsInRange ==
    /\ conv.fn = "hueToApi" =>
          /\ conv.y \in 0..65535
          /\ 360 * conv.y - 65535 * conv.x > -180
          /\ 360 * conv.y - 65535 * conv.x <= 180
          /\ conv.x = 0 => conv.y = 0
          /\ conv.x = 360 => conv.y = 65535
          /\ \A a \in 0..conv.x : hueToApi(a) <= conv.y
    /\ conv.fn = "percentToApi" =>
          /\ conv.y \in 0..254
          /\ 100 * conv.y - 254 * conv.x > -50
          /\ 100 * conv.y - 254 * conv.x <= 50
          /\ conv.x = 0 => conv.y = 0
          /\ conv.x = 100 => conv.y = 254
          /\ \A a \in 0..conv.x : percentToApi(a) <= conv.y

\* hue 12 is converted: 12 / 360 * 65535 = 2184.5 rounds up
C26_Witness == conv.fn = "hueToApi" /\ conv.x = 12 /\ conv.y = 2185

\* the stored value of a key, or the default when the key is absent
StoredOr(v, default) == IF v = None THEN default ELSE v[1]

\* C27: every getter returns the stored value unchanged, a stored 0 included, and when
\* the key is absent its default: 0, 100, 100 for the hue, saturation and brightness of
\* the meeting and of the warning colour, false for the warning-enabled flag and for the
\* meeting and warning flags, null for the snapshot; with both flags absent the status
\* is NO_STATUS.
C27_StoreDefaults ==
    [][StoreGet =>
          /\ got'.fn = "getMeetingColor" =>
                got'.color = [hue |-> StoredOr(storage.meetingHue, 0),
                              sat |-> StoredOr(storage.meetingSat, 100),
                              bri |-> StoredOr(storage.meetingBri, 100)]
          /\ got'.fn = "getWarningColor" =>
                got'.color = [hue |-> StoredOr(storage.warningColorHue, 0),
                              sat |-> StoredOr(storage.warningColorSat, 100),
                              bri |-> StoredOr(storage.warningColorBri, 100)]
          /\ got'.fn = "getWarningColorEnabled" =>
                got'.flag = StoredOr(storage.warningColorEnabled, FALSE)
          /\ got'.fn = "getMeetingStatus" =>
                got'.flag = StoredOr(storage.currentMeetingStatus, FALSE)
          /\ got'.fn = "getWarningStatus" =>
                got'.flag = StoredOr(storage.currentWarningStatus, FALSE)
          /\ got'.fn = "getPreviousLightState" =>
                got'.state = storage.previousLightState
          /\ (storage.currentMeetingStatus = None
                 /\ storage.currentWarningStatus = None) =>
                StatusOf(getMeetingStatus(storage), getWarningColorEnabled(storage),
                         getWarningStatus(storage)) = NO_STATUS]_vars

\* a stored meeting colour whose components are 0 was read back as it is, while the
\* warning colour is not stored
C27_Witness ==
    /\ got.fn = "getMeetingColor"
    /\ got.color = [hue |-> 0, sat |-> 0, bri |-> 0]
    /\ storage.meetingSat = Some(0)
    /\ storage.warningColorHue = None

(***************************************************************************)
(* Order of a handler's steps, and the snapshot rule.                      *)
(***************************************************************************)
\* C28: in every step of a handler: when it broadcasts, both flags are already those of
\* its status and it has issued no device request; when it issues the snapshot read or
\* the restore write it has broadcast; the colour write is its last step, issued after
\* the broadcast and, when a snapshot was asked for, only after the read succeeded and
\* the snapshot was stored; and when it stores the snapshot, the state stored is the
\* one it read and it has issued no write, so the snapshot is not the colour it pushes.
C28_HandlerStepsInOrder ==
    [][\A s \in Slots :
          /\ (~h[s].bcast /\ h'[s].bcast) =>
                /\ currentMeetingStatus' = (h[s].status = IN_MEETING)
                /\ currentWarningStatus' = (h[s].status = WARNING)
                /\ NoDeviceCall(h[s]) /\ ~h[s].snapWrote
                /\ h'[s].pc \in {"save_cfg", "color_cfg", "rest_cfg"}
          /\ (h[s].pc \in {"save_read", "rest_put"} /\ h'[s].pc # h[s].pc) => h[s].bcast
          /\ (h[s].pc = "color_put" /\ h'[s].pc # h[s].pc) =>
                /\ h'[s].pc = "done"
                /\ h[s].bcast
                /\ h[s].save => (h[s].read = "ok" /\ h[s].snapWrote)
          /\ (~h[s].snapWrote /\ h'[s].snapWrote) =>
                /\ h[s].read = "ok" /\ h[s].write = "none"
                /\ previousLightState' = h[s].state
                /\ previousLightState' = h[s].startLight]_vars

\* a call was joined from NO_STATUS: the snapshot holds the lamp's earlier state, the
\* lamp the meeting colour
C28_Witness ==
    /\ cur.pc = "done" /\ cur.status = IN_MEETING /\ cur.save /\ cur.bcast
    /\ cur.read = "ok" /\ cur.snapWrote /\ cur.write = "ok"
    /\ previousLightState = cur.startLight
    /\ light = apiState(getMeetingColor) /\ Some(light) # previousLightState

\* the message's previousStatus is NO_STATUS or null
FromNoStatus(r) == r.previousStatus = NO_STATUS \/ r.previousStatus = NULL

\* C29: a handler reads the light or stores a snapshot only if its message's
\* previousStatus is NO_STATUS or null, its status is WARNING or IN_MEETING and it was
\* not ignored as a duplicate; a finished handler of a WARNING or IN_MEETING message with
\* any other previousStatus has not read the light and has left the stored snapshot as
\* it was, and if it accepted the message and the bridge is configured it has issued
\* the write of its colour.
C29_SnapshotOnlyFromNoStatus ==
    /\ \A s \in Slots :
          (h[s].read # "none" \/ h[s].snapWrote \/ h[s].pc \in {"save_read", "save_store"})
              => /\ FromNoStatus(h[s])
                 /\ h[s].status \in {WARNING, IN_MEETING}
                 /\ h[s].accepted
    /\ (cur.pc = "done" /\ cur.status \in {WARNING, IN_MEETING} /\ ~FromNoStatus(cur)) =>
          /\ cur.read = "none" /\ ~cur.snapWrote
          /\ previousLightState = cur.startSnap
          /\ (cur.accepted /\ getHueClient(bridgeConfig)) =>
                (cur.write # "none" /\ cur.wstate = Some(ColorFor(cur.status)))

\* the call ended on a visible page: WARNING{IN_MEETING} pushed the warning colour over
\* the meeting colour and left the snapshot alone
C29_Witness ==
    /\ cur.pc = "done" /\ cur.status = WARNING /\ cur.previousStatus = IN_MEETING
    /\ cur.accepted /\ cur.write = "ok" /\ cur.read = "none"
    /\ cur.startSnap # None /\ previousLightState = cur.startSnap
    /\ cur.startLight = Some(apiState(getMeetingColor))

AfterRecompute(d, ch) ==
    IF d.lastKnownStatus = ComputedStatus(d) THEN ch
    ELSE Append(ch, [status |-> ComputedStatus(d),
                     previousStatus |-> d.lastKnownStatus])

\* C31: a recompute (interval or debounce timer) of a live detector on a visible page
\* ends with lastKnownStatus IN_MEETING if the call_end control is present and WARNING
\* if it is absent, and sends that status if it is new; and when the document of a
\* live detector becomes visible, the same recompute runs in that very step.
C31_VisibleRecomputeSetsStatus ==
    [][/\ ((Recompute \/ DebounceFires) /\ LiveDetector(det) /\ det.visible) =>
             /\ det'.lastKnownStatus = (IF det.callEnd THEN IN_MEETING ELSE WARNING)
             /\ channel' = AfterRecompute(det, channel)
       /\ (VisibilityChange /\ LiveDetector(det) /\ ~det.visible) =>
             /\ det'.visible
             /\ det'.lastKnownStatus = (IF det.callEnd THEN IN_MEETING ELSE WARNING)
             /\ channel' = AfterRecompute(det, channel)]_vars

\* the page was hidden from WARNING, the call was joined in the background, and the
\* document has just become visible: IN_MEETING is sent from NO_STATUS at once
C31_Witness ==
    /\ LiveDetector(det) /\ det.visible /\ det.callEnd
    /\ det.lastKnownStatus = IN_MEETING
    /\ channel = << [status |-> IN_MEETING, previousStatus |-> NO_STATUS] >>

\* C32: while the document is hidden, a recompute (interval or debounce timer) sends
\* nothing and keeps lastKnownStatus, and so does every other event of the page that
\* leaves it loaded and hidden (the call_end control appearing or disappearing
\* included); a detector started on a hidden page has lastKnownStatus null and has
\* sent nothing, and keeps both as long as the page stays hidden.
C32_HiddenRecomputeDoesNothing ==
    [][/\ ((Recompute \/ DebounceFires) /\ ~det.visible) =>
             (channel' = channel /\ det'.lastKnownStatus = det.lastKnownStatus)
       /\ (det.loaded /\ ~det.visible /\ det'.loaded /\ ~det'.visible) =>
             /\ Len(channel') <= Len(channel)
             /\ det'.lastKnownStatus = det.lastKnownStatus
             /\ det'.lastSent = det.lastSent
       /\ (PageLoad /\ ~det'.visible) =>
             /\ channel' = channel
             /\ det'.lastKnownStatus = NULL /\ det'.lastSent = NULL]_vars

\* a page opened in the background with a call running: the recompute that followed
\* returned at the visibility check, and nothing was ever sent
C32_Witness ==
    /\ det.loaded /\ ~det.visible /\ det.callEnd /\ det.skipped
    /\ det.lastKnownStatus = NULL /\ det.lastSent = NULL /\ channel = << >>

(***************************************************************************)
(* Liveness of the detector.                                               *)
(***************************************************************************)
\* the detector is live on a visible page
LiveVisible == LiveDetector(det) /\ det.visible

\* C33: while the detector is live and the page visible, recomputes keep running (the
\* interval fires again and again) whether mutation signals never come or keep
\* resetting the debounce timeout; so whenever lastKnownStatus differs from the status
\* of the page, the detector eventually sends the status of the page, unless the page
\* is hidden or the detector disabled first.
C33_ChangeEventuallyReported ==
    /\ []<>(~LiveVisible \/ (timers.interval = intervalSet /\ ~det.skipped))
    /\ (LiveVisible /\ det.lastKnownStatus # ComputedStatus(det))
          ~> (~LiveVisible \/ (/\ det.lastKnownStatus = ComputedStatus(det)
                               /\ det.lastSent = ComputedStatus(det)))

\* the call was joined on a visible page while a debounce timeout was pending and the
\* interval had less than a debounce delay to go; the interval has just fired and
\* sent IN_MEETING, the debounce timeout is still pending
C33_Witness ==
    /\ LiveVisible /\ det.callEnd /\ det.lastKnownStatus = IN_MEETING
    /\ timers.interval = intervalSet /\ timers.debounce = Some(250)
    /\ channel # << >> /\ channel[Len(channel)].status = IN_MEETING

(***************************************************************************)
(* Clearing the bridge configuration.                                      *)
(***************************************************************************)
\* keys of the local store that hold the colours and the warning feature flag
ColorKeys ==
    {"meetingHue", "meetingSat", "meetingBri", "warningColorHue", "warningColorSat",
     "warningColorBri", "warningColorEnabled"}

\* C35: clearBridgeConfig removes the bridge's address, credential and light id, and
\* the snapshot, the meeting flag and the warning flag, so that afterwards the status
\* read from the store is NO_STATUS and no snapshot is found; the meeting colour, the
\* warning colour and the warning-enabled flag are left as they are, the lamp is not
\* written and nothing is broadcast, whatever the status was before.
C35_ClearBridgeConfig ==
    [][StoreClearBridgeConfig =>
          /\ bridgeConfig' = [bridgeIp |-> << >>, username |-> "", lightId |-> ""]
          /\ storage'.previousLightState = None
          /\ storage'.currentMeetingStatus = None
          /\ storage'.currentWarningStatus = None
          /\ StatusOf(getMeetingStatus(storage'), getWarningColorEnabled(storage'),
                      getWarningStatus(storage')) = NO_STATUS
          /\ getPreviousLightState(storage') = None
          /\ \A k \in ColorKeys : storage'[k] = storage[k]
          /\ light' = light /\ lastWriter' = lastWriter
          /\ popup' = popup /\ h' = h]_vars

\* the meeting flag was read as true and has been removed since, with the bridge's
\* keys, while the colours and the warning feature flag are still stored
C35_Witness ==
    /\ bridgeReliable /\ bridgeConfig = NoBridgeConfig
    /\ got.fn = "getMeetingStatus" /\ got.flag
    /\ storage.currentMeetingStatus = None /\ storage.currentWarningStatus = None
    /\ storage.previousLightState = None
    /\ storage.meetingHue = Some(240) /\ storage.warningColorHue = Some(240)
    /\ storage.warningColorEnabled = Some(TRUE)

(***************************************************************************)
(* The settings page's test of the meeting colour.                         *)
(***************************************************************************)
\* C34: no step of handleTestColor reads or changes the stored snapshot (nor the
\* flags, nor what the popup shows): savedState is the state read from the lamp; the
\* test colour is written only after that read succeeded, and a failed read ends the
\* test with no write at all; the timeout, set to 2000 ms after the test colour was
\* applied, writes savedState back, whatever snapshot is stored: run while the lamp
\* shows the meeting colour, the test leaves the meeting colour, not the state of
\* before the meeting.
C34_TestColorUsesOwnSavedState ==
    [][/\ test' # test =>
             /\ previousLightState' = previousLightState
             /\ currentMeetingStatus' = currentMeetingStatus
             /\ currentWarningStatus' = currentWarningStatus
             /\ popup' = popup /\ h' = h
       /\ TestGetLightState =>
             /\ light' = light
             /\ test'.pc = "setLightState" => test'.savedState = Some(light)
             /\ test'.pc # "setLightState" =>
                   (test'.pc = "aborted" /\ test'.savedState = None)
       /\ (test' # test /\ test'.pc = "aborted") =>
             (test'.writes = 0 /\ light' = light)
       /\ TestSetLightState =>
             /\ test'.applied = "ok" =>
                   (light' = test.color /\ test'.delay = 2000 /\ test'.pc = "timeout")
             /\ test'.applied # "ok" => (light' = light /\ test'.pc = "failed")
       /\ TestRestore =>
             /\ test.delay = 2000 /\ test.applied = "ok" /\ test'.writes = 2
             /\ test'.restored = "ok" => light' = test.savedState[1]
             /\ test'.restored # "ok" => light' = light]_vars

\* the test ran during a meeting: the lamp is back in the meeting colour it had when
\* the test began, while the snapshot of the state before the meeting is still stored
C34_Witness ==
    /\ test.pc = "done" /\ test.restored = "ok" /\ NoneRunning
    /\ currentMeetingStatus /\ previousLightState = Some(original)
    /\ test.savedState = Some(apiState(getMeetingColor))
    /\ light = apiState(getMeetingColor) /\ light # original
    /\ test.color # light

(***************************************************************************)
(* The end of a call on a visible page.                                    *)
(***************************************************************************)
\* WARNING{previousStatus IN_MEETING} handled to completion from canonical IN_MEETING
C36_Case ==
    /\ cur.pc = "done" /\ cur.status = WARNING /\ cur.previousStatus = IN_MEETING
    /\ cur.startStatus = IN_MEETING

C37_SnapshotRemovedOnlyAfterRestore ==
    [][/\ (previousLightState # None /\ previousLightState' = None) =>
             \E s \in Slots :
                /\ h[s].pc = "rest_clear" /\ h[s].status = NO_STATUS
                /\ h[s].write = "ok" /\ h[s].wstate = previousLightState
                /\ h'[s].cleared
       /\ \A s \in Slots :
             (h[s].pc \in {"rest_cfg", "rest_put"} /\ h'[s].pc = "done") =>
                /\ h'[s].write # "ok" /\ ~h'[s].cleared
                /\ previousLightState' = previousLightState
                /\ previousLightState' = h[s].startSnap
                /\ ~currentMeetingStatus' /\ ~currentWarningStatus'
                /\ StatusOf(currentMeetingStatus', warningColorEnabled',
                            currentWarningStatus') = NO_STATUS]_vars

\* the call was left but the restore's write failed: the status is NO_STATUS, the
\* snapshot is still stored and the lamp still shows the meeting colour
C37_Witness ==
    /\ cur.pc = "done" /\ cur.status = NO_STATUS /\ cur.accepted
    /\ cur.write = "fail" /\ ~cur.cleared
    /\ previousLightState = Some(original)
    /\ ~currentMeetingStatus /\ ~currentWarningStatus
    /\ light = apiState(getMeetingColor) /\ light # original

(***************************************************************************)
(* The two persisted flags.                                                *)
(***************************************************************************)
\* C38: whenever no Status handler is in progress, the meeting flag and the warning
\* flag are not both true, also after handlers that overlapped; and then, if the
\* message that arrived last was an accepted IN_MEETING, the meeting flag is true and
\* the warning flag false, and if it was an accepted NO_STATUS, both are false.
C38_FlagsExclusiveAtRest ==
    NoneRunning =>
        /\ ~(currentMeetingStatus /\ currentWarningStatus)
        /\ (cur.pc = "done" /\ cur.accepted /\ cur.status = IN_MEETING) =>
              (currentMeetingStatus /\ ~currentWarningStatus)
        /\ (cur.pc = "done" /\ cur.accepted /\ cur.status = NO_STATUS) =>
              (~currentMeetingStatus /\ ~currentWarningStatus)

(***************************************************************************)
(* Where the detector's NO_STATUS messages come from.                      *)
(***************************************************************************)
\* C39: a message with status NO_STATUS is sent only by the visibility handler when
\* the document becomes hidden while lastKnownStatus is WARNING, or by the unload of
\* the page; a recompute (interval or debounce timer) sends only WARNING or
\* IN_MEETING; and while lastKnownStatus is IN_MEETING and the document hidden, no
\* step that leaves the page loaded and hidden sends a message or changes
\* lastKnownStatus.
C39_NoStatusOnlyFromHiddenOrUnload ==
    [][/\ (Len(channel') > Len(channel)
             /\ channel'[Len(channel')].status = NO_STATUS) =>
             \/ /\ VisibilityChange /\ det.visible /\ ~det'.visible
                /\ det.lastKnownStatus = WARNING
             \/ Unload
       /\ ((Recompute \/ DebounceFires) /\ Len(channel') > Len(channel)) =>
             channel'[Len(channel')].status \in {WARNING, IN_MEETING}
       /\ (det.loaded /\ ~det.visible /\ det.lastKnownStatus = IN_MEETING
             /\ det'.loaded /\ ~det'.visible) =>
             /\ Len(channel') <= Len(channel)
             /\ det'.lastKnownStatus = IN_MEETING]_vars

\* the tab was hidden during a call, the call ended in the background and a recompute
\* ran: the detector still holds IN_MEETING and has sent nothing since
C39_Witness ==
    /\ det.loaded /\ ~det.visible /\ ~det.callEnd /\ det.skipped
    /\ det.lastKnownStatus = IN_MEETING /\ det.lastSent = IN_MEETING
    /\ channel = << >>

====
